---- MODULE Spec2Model ----
(***************************************************************************)
(* State-machine model of client/src/utils/blockchain.ts: the on-chain     *)
(* state access layer of the voting application (round discovery, the      *)
(* candidate/tally readers with their localStorage cache, vote submission  *)
(* and the transaction-history reconstruction).                            *)
(***************************************************************************)
EXTENDS Integers, Sequences, FiniteSets, TLC

(***************************************************************************)
(* Bounds of the model.                                                    *)
(***************************************************************************)
MaxRounds == 2
MaxSec == 2
MaxFails == 1
MaxCands == 2
MaxVotes == 2

(***************************************************************************)
(* Program constants.                                                      *)
(***************************************************************************)
maxElectionsToCheck == 10
MsPerSec == 1000
searchRange == 10000
ScanStride == 100
MaxTransactions == 20
MsPerDay == 1000 * 60 * 60 * 24

VARIABLES
  nowMs,              \* Date.now(), in milliseconds
  currentElectionId,  \* contract.currentElectionId()
  elections,          \* contract.elections(id)
  chainCandidates,    \* the candidate arrays contract.getAllCandidates(id) reads
  ledger,             \* the confirmed transactions sent to the contract, oldest first
  cache,              \* window.localStorage
  disc,               \* the getActiveElectionId call in progress / last finished
  ret,                \* the last finished reader call
  vote,               \* the castVote call in progress / last finished
  made,               \* the last finished createElection call
  hist,               \* the getContractTransactions call that has just finished
  page,               \* the vote page: the wallet hook and the handleCastVote invocation
  panel               \* the admin NIN management panel and the lock it controls

chainVars == <<currentElectionId, elections, chainCandidates, ledger>>
vars == <<nowMs, currentElectionId, elections, chainCandidates, ledger, cache, disc, ret,
          vote, made, hist, page, panel>>

Max(a, b) == IF a >= b THEN a ELSE b
Min(S) == CHOOSE x \in S : \A y \in S : x <= y

RoundIds == 1..MaxRounds
Seconds == 1..MaxSec
Windows == {w \in Seconds \X Seconds : w[1] <= w[2]}
MaxNowMs == (MaxSec + 1) * MsPerSec

\* Math.floor(Date.now() / 1000)
NowSec(ms) == ms \div MsPerSec

(***************************************************************************)
(* The chain.                                                              *)
(***************************************************************************)
\* what the mapping getter returns for an id no round was stored under
NoElection == [exists |-> FALSE, startTime |-> 0, endTime |-> 0, name |-> <<>>]

ElectionAt(id) == IF id \in DOMAIN elections THEN elections[id] ELSE NoElection

RECURSIVE VotesCast(_)
\* the votes the contract has counted for the candidates of one round
VotesCast(cands) ==
  IF cands = <<>> THEN 0 ELSE cands[1].votes + VotesCast(Tail(cands))

\* the contract's address and the accounts that send transactions to it
CONTRACT_ADDRESS == "0xc0895D39fBBD1918067d5Fa41beDAF51d36665B5"
WalletAccount == "0xWallet"
OtherAccount == "0xOther"

\* a transaction hash: that of the transaction that created round id, that of
\* the one that cast the vote of identity hash `voter` in round id, and the text
\* of a hash that getContractTransactions makes up or has written in its code
TxHash(kind, id, voter, chars) ==
  [kind |-> kind, round |-> id, voter |-> voter, chars |-> chars]
CreationHash(id) == TxHash("createElection", id, "", <<>>)
VoteHash(id, voter) == TxHash("castVote", id, voter, <<>>)

\* the block a transaction confirmed now is mined in. The chain numbers and stamps
\* its blocks itself, both growing from block to block: the contract's k-th
\* transaction is in block k * ScanStride, which carries second k
NextBlock == [number |-> (Len(ledger) + 1) * ScanStride, timestamp |-> Len(ledger) + 1]

\* the transaction as the chain stores it, with its receipt
Mined(hash, method, id, voter, from, block) ==
  [hash |-> hash, method |-> method, round |-> id, voter |-> voter, from |-> from,
   to |-> CONTRACT_ADDRESS, value |-> "0", blockNumber |-> block.number,
   timestamp |-> block.timestamp, status |-> 1]

\* the (round, voter identity hash) pairs whose vote the contract has counted
Voted == {<<ledger[i].round, ledger[i].voter>> :
            i \in {j \in 1..Len(ledger) : ledger[j].method = "castVote"}}

\* a round stored by a confirmed createElection transaction, sent by any client
ChainCreateElection(name, startTime, endTime, cands, from) ==
  /\ currentElectionId < MaxRounds
  /\ ledger' = Append(ledger, Mined(CreationHash(currentElectionId + 1), "createElection",
                                    currentElectionId + 1, "", from, NextBlock))
  /\ currentElectionId' = currentElectionId + 1
  /\ elections' = [elections EXCEPT ![currentElectionId + 1] =
                     [exists |-> TRUE, startTime |-> startTime,
                      endTime |-> endTime, name |-> name]]
  /\ chainCandidates' = [chainCandidates EXCEPT ![currentElectionId + 1] =
                     [i \in 1..Len(cands) |->
                        [name |-> cands[i].name, party |-> cands[i].party, votes |-> 0]]]

\* an id is allocated and its window stored while the round is not populated:
\* its exists flag is false and it has no candidates
ChainAllocateElection(startTime, endTime) ==
  /\ currentElectionId < MaxRounds
  /\ currentElectionId' = currentElectionId + 1
  /\ elections' = [elections EXCEPT ![currentElectionId + 1] =
                     [exists |-> FALSE, startTime |-> startTime,
                      endTime |-> endTime, name |-> <<>>]]
  /\ UNCHANGED <<chainCandidates, ledger>>

\* what makes the contract accept a vote: the round and the candidate exist and
\* the voter's identity hash has not voted in the round
VoteAcceptable(id, idx, voter) ==
  /\ id \in 1..currentElectionId
  /\ idx \in 1..Len(chainCandidates[id])
  /\ <<id, voter>> \notin Voted

\* a confirmed castVote transaction of any client adds one to a candidate's votes
ChainCastVote(id, idx, voter, from) ==
  /\ VoteAcceptable(id, idx, voter)
  /\ VotesCast(chainCandidates[id]) < MaxVotes
  /\ chainCandidates' = [chainCandidates EXCEPT ![id][idx].votes = @ + 1]
  /\ ledger' = Append(ledger, Mined(VoteHash(id, voter), "castVote", id, voter, from,
                                    NextBlock))
  /\ UNCHANGED <<currentElectionId, elections>>

(***************************************************************************)
(* localStorage. An entry is <<>> when the key is absent (getItem gives    *)
(* null) and <<v>> when it holds the JSON text of v. JSON text keeps       *)
(* strings, numbers and booleans and writes a Date as its ISO string.      *)
(***************************************************************************)
NoEntry == <<>>

\* `election_${id}_candidates`
CandidatesKey(id) == <<"election_candidates", id>>

\* `election_${id}_info`
InfoKey(id) == <<"election_info", id>>

\* "lastElectionCreationTx" and "lastVoteCastTx"
LastCreationKey == <<"lastElectionCreationTx", 0>>
LastVoteKey == <<"lastVoteCastTx", 0>>

CacheKeys ==
  {CandidatesKey(id) : id \in RoundIds} \cup {InfoKey(id) : id \in RoundIds}
    \cup {LastCreationKey, LastVoteKey}

\* localStorage.setItem(key, text)
SetItem(c, key, json) == [c EXCEPT ![key] = <<json>>]

\* new Date(ms)
DateOf(ms) == [type |-> "Date", ms |-> ms]

\* JSON.stringify of a Date: the ISO string of the same instant
DateToJSON(d) == [type |-> "string", ms |-> d.ms]

\* the record of the reader call that has just finished (NoCall once the clock
\* or the chain has moved since): what it returned, whether a chain read of the
\* call failed, the cache keys it read, the list its nested getAllCandidates
\* returned, and whether the call before it was the same call (and whether a chain read of that one failed)
NoCall ==
  [op |-> "none", id |-> 0, value |-> <<>>, failed |-> FALSE, reads |-> {},
   inner |-> <<>>, repeat |-> FALSE, prevFailed |-> FALSE, threw |-> FALSE]

\* the value of a property that is not there
Undefined == "undefined"

NoError == [code |-> "none", message |-> Undefined]
NoResult == [success |-> FALSE, error |-> "no result"]

\* enum VotingStep, lines 346-351
NIN_ENTRY == 0
LIVENESS_CHECK == 1
CANDIDATE_SELECTION == 2
TRANSACTION_CONFIRMATION == 3

\* useState("") of line 359: the empty transaction hash
EmptyHash == TxHash("", 0, "", <<>>)

\* useState(null) of line 356
NoCandidate == -1

\* the vote page when it is mounted, lines 355-367. currentStep, selectedCandidate,
\* hasVoted, isSubmitting, transactionHash and voterNIN are the state of the
\* component, electionData the electionId of the query's data (0 when the data
\* is null) and wallet the state of the useMetaMask hook. isConnected, account,
\* candidate and electionId are the values the invocation of handleCastVote in
\* progress (or the last one) took from the render it was created in; connect is
\* what its connect() did, called whether it called castVote, toast what it
\* showed the user. steps are the values currentStep has had, running the
\* invocations of handleCastVote that have not ended and calls their castVote
\* calls that have not returned to them
NoAccount == ""

PageIdle ==
  [pc |-> "idle", wallet |-> [isConnected |-> FALSE, account |-> NoAccount],
   currentStep |-> NIN_ENTRY, selectedCandidate |-> NoCandidate,
   hasVoted |-> FALSE, isSubmitting |-> FALSE, transactionHash |-> EmptyHash,
   voterNIN |-> "", electionData |-> 0,
   isConnected |-> FALSE, account |-> NoAccount, candidate |-> NoCandidate,
   electionId |-> 0, connect |-> "none", called |-> FALSE, toast |-> "none",
   entered |-> FALSE, steps |-> <<NIN_ENTRY>>, running |-> 0, calls |-> 0]

\* the admin NIN management panel when it is mounted, lines 151-152 and 200-204:
\* loadLockStatus has been started by the effect. locked is the lock of the
\* backend's admin_config, account the account of the useMetaMask hook;
\* before, newLockStatus and adminAddress are those of the handleToggleLock
\* invocation in progress (or of the last one), outcome how its backend update
\* ended, toast what it showed and toggles the invocations that have ended
PanelMounted ==
  [pc |-> "loading", isSubmissionLocked |-> FALSE, loadingLockStatus |-> TRUE,
   locked |-> FALSE, account |-> NoAccount, before |-> FALSE,
   newLockStatus |-> FALSE, adminAddress |-> NoAccount, outcome |-> "none",
   toast |-> "none", toggles |-> 0]

\* castVote before its first call; revertResults are the results the calls so far
\* have returned when the contract reverted, wrote says that the call has stored
\* its record and replaced that the key held a record before
VoteIdle ==
  [pc |-> "idle", electionId |-> 0, candidateIndex |-> 0, voter |-> "",
   result |-> NoResult, error |-> NoError, sent |-> 0, wrote |-> FALSE,
   replaced |-> FALSE, receipt |-> <<>>, revertResults |-> {}]

\* no createElection call has just finished
NoMade ==
  [op |-> "none", result |-> NoResult, error |-> NoError, confirmed |-> FALSE,
   step |-> "none"]

\* no getContractTransactions call has just finished. Of a finished call the
\* record keeps what it returned, the list it had merged before sorting, whether
\* the sort threw, how many records each layer added, what the node answered and
\* the blocks the scan read
NoHist ==
  [op |-> "none", value |-> <<>>, merged |-> <<>>, currentIdRead |-> FALSE,
   sortThrew |-> FALSE, rpc |-> <<>>, visited |-> <<>>,
   layers |-> [events |-> 0, synthesized |-> 0, scanned |-> 0, cached |-> 0, known |-> 0]]

(***************************************************************************)
(* Round Discovery: getActiveElectionId, one step per awaited chain read.  *)
(***************************************************************************)
InWindow(e, now) == e.startTime <= now /\ e.endTime >= now

\* a faulty variant: the current round is never taken without the scan
NeverActive(e, now) == FALSE

\* lines 278-281
IsActive(e, now) == e.exists /\ InWindow(e, now)

\* a faulty variant: the scan takes the first round that exists, whatever its window
ScanMatchesAnyExisting(e, now) == e.exists

\* a faulty variant: the scan tests the window alone
ScanMatchesWindowOnly(e, now) == InWindow(e, now)

\* lines 308-318: the test of one scanned id
ScanMatches(e, now) == IF ~e.exists THEN FALSE ELSE InWindow(e, now)

\* a faulty variant: the scan goes one id past the larger of the two numbers
ScanLimitBeyond(cur) == Max(cur, maxElectionsToCheck) + 1

\* line 303
ScanLimit(cur) == Max(cur, maxElectionsToCheck)

\* line 302
FirstScanId == 1

\* line 304
NextScanId(id) == id + 1


DiscIdle ==
  [pc |-> "idle", cur |-> 0, id |-> 0, ret |-> 0, via |-> "none",
   failed |-> {}, t0 |-> 0, id0 |-> 0, reads |-> 0, cacheReads |-> {},
   currentIdRead |-> FALSE]

\* the call's return
DiscReturn(d, value, how) == [d EXCEPT !.pc = "done", !.ret = value, !.via = how]

\* a faulty variant: when the read of currentElectionId fails the scan starts
DiscStartProbesOnFailure(ok) ==
  /\ disc.pc \in {"idle", "done"}
  /\ LET d == [DiscIdle EXCEPT !.t0 = nowMs, !.id0 = currentElectionId,
                              !.currentIdRead = ok]
     IN disc' =
          IF ok /\ currentElectionId > 0
          THEN [d EXCEPT !.pc = "fast", !.cur = currentElectionId]
          ELSE [d EXCEPT !.pc = "scan", !.cur = IF ok THEN currentElectionId ELSE 0,
                         !.id = FirstScanId]
  /\ ret' = NoCall
  /\ UNCHANGED <<nowMs, chainVars, cache, vote>>
  /\ made' = NoMade
  /\ hist' = NoHist
  /\ UNCHANGED page
  /\ UNCHANGED panel

\* lines 266-273: the read of currentElectionId
DiscStart(ok) ==
  /\ disc.pc \in {"idle", "done"}
  /\ LET d == [DiscIdle EXCEPT !.t0 = nowMs, !.id0 = currentElectionId,
                              !.currentIdRead = ok]
     IN disc' =
          IF ~ok THEN DiscReturn(d, 0, "error")
          ELSE IF currentElectionId > 0
               THEN [d EXCEPT !.pc = "fast", !.cur = currentElectionId]
               ELSE [d EXCEPT !.pc = "scan", !.cur = currentElectionId,
                              !.id = FirstScanId]
  /\ ret' = NoCall
  /\ UNCHANGED <<nowMs, chainVars, cache, vote>>
  /\ made' = NoMade
  /\ hist' = NoHist
  /\ UNCHANGED page
  /\ UNCHANGED panel

\* lines 274-295: the read of the current round; a failure reaches the outer catch
DiscFast(ok) ==
  /\ disc.pc = "fast"
  /\ (~ok) => Cardinality(disc.failed) < MaxFails
  /\ LET d == [disc EXCEPT !.reads = @ + 1]
         e == ElectionAt(disc.cur)
     IN disc' =
          IF ~ok
          THEN DiscReturn([d EXCEPT !.failed = @ \cup {disc.cur}], 0, "error")
          ELSE IF IsActive(e, NowSec(nowMs))
               THEN DiscReturn([d EXCEPT !.cacheReads = @ \cup {CandidatesKey(disc.cur)}],
                               disc.cur, "fast")
               ELSE [d EXCEPT !.pc = "scan", !.id = FirstScanId]
  /\ UNCHANGED <<nowMs, chainVars, cache, ret, vote>>
  /\ made' = NoMade
  /\ hist' = NoHist
  /\ UNCHANGED page
  /\ UNCHANGED panel

\* lines 301-327: the read of one scanned id; a failure is caught and skipped
DiscProbe(ok) ==
  /\ disc.pc = "scan"
  /\ (~ok) => Cardinality(disc.failed \cup {disc.id}) <= MaxFails
  /\ LET d == [disc EXCEPT !.reads = @ + 1,
                           !.failed = IF ok THEN @ ELSE @ \cup {disc.id}]
         e == ElectionAt(disc.id)
         next == NextScanId(disc.id)
     IN disc' =
          IF ok /\ ScanMatches(e, NowSec(nowMs))
          THEN DiscReturn(d, disc.id, "scan")
          ELSE IF next <= ScanLimit(disc.cur)
               THEN [d EXCEPT !.id = next]
               ELSE DiscReturn(d, 0, "none")
  /\ UNCHANGED <<nowMs, chainVars, cache, ret, vote>>
  /\ made' = NoMade
  /\ hist' = NoHist
  /\ UNCHANGED page
  /\ UNCHANGED panel

(***************************************************************************)
(* Candidate/Tally Reader: getAllCandidates, getElectionInfo (with         *)
(* getCandidateCount) and getTotalVotes. Each operator gives what the call *)
(* returns, the cache it leaves, whether a chain read failed and the cache *)
(* keys it read.                                                           *)
(***************************************************************************)
\* lines 456-464: the candidate objects built from the arrays the chain returned
CandidatesFromChain(result) ==
  [i \in 1..Len(result) |->
     [name |-> result[i].name, party |-> result[i].party,
      votes |-> result[i].votes, index |-> i - 1]]

\* JSON.stringify(candidates)
CandidatesToJSON(list) ==
  [i \in 1..Len(list) |->
     [name |-> list[i].name, party |-> list[i].party,
      votes |-> list[i].votes, index |-> list[i].index]]

\* JSON.parse(cachedCandidates)
CandidatesFromJSON(json) ==
  [i \in 1..Len(json) |->
     [name |-> json[i].name, party |-> json[i].party,
      votes |-> json[i].votes, index |-> json[i].index]]

\* a faulty variant: the list read is never saved
NeverCacheCandidates(candidates) == FALSE

\* line 467
ShouldCacheCandidates(candidates) == Len(candidates) > 0

\* a faulty variant: a cached list is preferred to the chain read
CandidatesCacheFirst(c, id) ==
  LET cachedCandidates == c[CandidatesKey(id)]
      candidates == CandidatesFromChain(chainCandidates[id])
  IN [value |-> IF cachedCandidates # NoEntry
                THEN CandidatesFromJSON(cachedCandidates[1])
                ELSE candidates,
      cache |-> IF cachedCandidates = NoEntry /\ Len(candidates) > 0
                THEN SetItem(c, CandidatesKey(id), CandidatesToJSON(candidates))
                ELSE c,
      failed |-> FALSE,
      reads |-> {CandidatesKey(id)},
      threw |-> FALSE]

\* a faulty variant: the list read is appended to the list already saved
CandidatesAccumulating(c, id) ==
  LET cachedCandidates == c[CandidatesKey(id)]
      candidates ==
        (IF cachedCandidates # NoEntry
         THEN CandidatesFromJSON(cachedCandidates[1]) ELSE <<>>)
          \o CandidatesFromChain(chainCandidates[id])
  IN [value |-> candidates,
      cache |-> IF Len(candidates) > 0
                THEN SetItem(c, CandidatesKey(id), CandidatesToJSON(candidates))
                ELSE c,
      failed |-> FALSE,
      reads |-> {},
      threw |-> FALSE]

\* lines 453-474: the chain read succeeded
CandidatesOnSuccess(c, id) ==
  LET candidates == CandidatesFromChain(chainCandidates[id])
  IN [value |-> candidates,
      cache |-> IF ShouldCacheCandidates(candidates)
                THEN SetItem(c, CandidatesKey(id), CandidatesToJSON(candidates))
                ELSE c,
      failed |-> FALSE,
      reads |-> {},
      threw |-> FALSE]

\* a faulty variant: a failed chain read gives the empty list without a look at the cache
CandidatesOnFailureEmpty(c, id) ==
  [value |-> <<>>, cache |-> c, failed |-> TRUE, reads |-> {}, threw |-> FALSE]

\* a faulty variant: without a cached list the error of the chain read is thrown on
CandidatesOnFailureRethrows(c, id) ==
  LET cachedCandidates == c[CandidatesKey(id)]
  IN [value |-> IF cachedCandidates # NoEntry
                THEN CandidatesFromJSON(cachedCandidates[1])
                ELSE <<>>,
      cache |-> c,
      failed |-> TRUE,
      reads |-> {CandidatesKey(id)},
      threw |-> cachedCandidates = NoEntry]

\* lines 475-496: the chain read failed
CandidatesOnFailure(c, id) ==
  LET cachedCandidates == c[CandidatesKey(id)]
  IN [value |-> IF cachedCandidates # NoEntry
                THEN CandidatesFromJSON(cachedCandidates[1])
                ELSE <<>>,
      cache |-> c,
      failed |-> TRUE,
      reads |-> {CandidatesKey(id)},
      threw |-> FALSE]

\* lines 449-497
GetAllCandidatesCall(c, id, ok) ==
  IF ok THEN CandidatesOnSuccess(c, id) ELSE CandidatesOnFailure(c, id)

\* lines 449-497 when every access to localStorage throws: the setItem of line
\* 468 throws into the catch of line 475, the getItem of line 483 into the catch
\* of line 491, and line 495 returns the empty list; an empty list read from the
\* chain is returned at line 474 without an access
CandidatesStorageBlocked(c, id, ok) ==
  [value |-> <<>>, cache |-> c, failed |-> ~ok, reads |-> {}, threw |-> FALSE]

\* a faulty variant: the count is that of the round's candidates on the chain
CandidateCountFromChain(c, id) == Len(chainCandidates[id])

\* lines 391-418
GetCandidateCount(c, id) ==
  LET cachedCandidates == c[CandidatesKey(id)]
  IN IF cachedCandidates # NoEntry
     THEN Len(CandidatesFromJSON(cachedCandidates[1]))
     ELSE 0

\* lines 355-364
ElectionInfoFromChain(c, id, election, ms) ==
  [name |-> election.name,
   startTime |-> DateOf(election.startTime * MsPerSec),
   endTime |-> DateOf(election.endTime * MsPerSec),
   active |-> /\ election.exists
              /\ ms >= election.startTime * MsPerSec
              /\ ms <= election.endTime * MsPerSec,
   candidateCount |-> GetCandidateCount(c, id)]

\* JSON.stringify(electionInfo)
InfoToJSON(info) ==
  [name |-> info.name,
   startTime |-> DateToJSON(info.startTime),
   endTime |-> DateToJSON(info.endTime),
   active |-> info.active,
   candidateCount |-> info.candidateCount]

\* JSON.parse(cachedInfo)
InfoFromJSON(json) ==
  [name |-> json.name, startTime |-> json.startTime, endTime |-> json.endTime,
   active |-> json.active, candidateCount |-> json.candidateCount]

\* a faulty variant: the assembled info is returned and not written
InfoNotWritten(c, id, ms) ==
  [value |-> <<ElectionInfoFromChain(c, id, ElectionAt(id), ms)>>,
   cache |-> c,
   failed |-> FALSE,
   reads |-> {InfoKey(id), CandidatesKey(id)},
   threw |-> FALSE]

\* lines 345 and 351-371: the chain read succeeded; the value returned is <<info>>
InfoOnSuccess(c, id, ms) ==
  LET electionInfo == ElectionInfoFromChain(c, id, ElectionAt(id), ms)
  IN [value |-> <<electionInfo>>,
      cache |-> SetItem(c, InfoKey(id), InfoToJSON(electionInfo)),
      failed |-> FALSE,
      reads |-> {InfoKey(id), CandidatesKey(id)},
      threw |-> FALSE]

\* a faulty variant: a failed chain read gives null without a look at the cache
InfoOnFailureNull(c, id) ==
  [value |-> <<>>, cache |-> c, failed |-> TRUE, reads |-> {}, threw |-> FALSE]

\* lines 345 and 372-387: the chain read failed; <<>> is the null returned
InfoOnFailure(c, id) ==
  LET cachedInfo == c[InfoKey(id)]
  IN [value |-> IF cachedInfo # NoEntry THEN <<InfoFromJSON(cachedInfo[1])>> ELSE <<>>,
      cache |-> c,
      failed |-> TRUE,
      reads |-> {InfoKey(id)},
      threw |-> FALSE]

\* lines 341-388
GetElectionInfoCall(c, id, ok, ms) ==
  IF ok THEN InfoOnSuccess(c, id, ms) ELSE InfoOnFailure(c, id)

\* lines 335-345 when every access to localStorage throws: the getItem of line
\* 336 is outside the try of line 351, the call throws before the chain is read
InfoStorageBlocked(c, id) ==
  [value |-> <<>>, cache |-> c, failed |-> FALSE, reads |-> {}, threw |-> TRUE]

\* a faulty variant: the candidates are counted, their votes are not added
CountCandidates(candidates) == Len(candidates)

RECURSIVE SumVotes(_)
\* lines 511-514: candidates.reduce((sum, candidate) => sum + (candidate.votes || 0), 0)
SumVotes(candidates) ==
  IF candidates = <<>> THEN 0
  ELSE SumVotes(SubSeq(candidates, 1, Len(candidates) - 1))
         + candidates[Len(candidates)].votes

\* the contract's getTotalVotes(id): the votes cast in the round
ChainTotalVotes(id) == VotesCast(chainCandidates[id])


\* lines 500-523
GetTotalVotesCall(c, id, directOk, candidatesOk) ==
  IF directOk
  THEN [value |-> ChainTotalVotes(id), cache |-> c, failed |-> FALSE,
        reads |-> {}, inner |-> <<>>, threw |-> FALSE]
  ELSE LET r == GetAllCandidatesCall(c, id, candidatesOk)
       IN [value |-> SumVotes(r.value), cache |-> r.cache, failed |-> TRUE,
           reads |-> r.reads, inner |-> <<r.value>>, threw |-> r.threw]

\* the record a finished call leaves
Finished(op, id, r, inner) ==
  [op |-> op, id |-> id, value |-> r.value, failed |-> r.failed, reads |-> r.reads,
   inner |-> inner, repeat |-> ret.op = op /\ ret.id = id, prevFailed |-> ret.failed,
   threw |-> r.threw]

\* storageOk: localStorage can be accessed during the call
GetAllCandidates(id, ok, storageOk) ==
  /\ disc.pc \in {"idle", "done"}
  /\ LET r == IF storageOk THEN GetAllCandidatesCall(cache, id, ok)
              ELSE CandidatesStorageBlocked(cache, id, ok)
     IN /\ cache' = r.cache
        /\ ret' = Finished("getAllCandidates", id, r, <<>>)
  /\ disc' = DiscIdle
  /\ UNCHANGED <<nowMs, chainVars, vote>>
  /\ made' = NoMade
  /\ hist' = NoHist
  /\ UNCHANGED page
  /\ UNCHANGED panel

GetElectionInfo(id, ok, storageOk) ==
  /\ disc.pc \in {"idle", "done"}
  /\ LET r == IF storageOk THEN GetElectionInfoCall(cache, id, ok, nowMs)
              ELSE InfoStorageBlocked(cache, id)
     IN /\ cache' = r.cache
        /\ ret' = Finished("getElectionInfo", id, r, <<>>)
  /\ disc' = DiscIdle
  /\ UNCHANGED <<nowMs, chainVars, vote>>
  /\ made' = NoMade
  /\ hist' = NoHist
  /\ UNCHANGED page
  /\ UNCHANGED panel

GetTotalVotes(id, directOk, candidatesOk) ==
  /\ disc.pc \in {"idle", "done"}
  /\ LET r == GetTotalVotesCall(cache, id, directOk, candidatesOk)
     IN /\ cache' = r.cache
        /\ ret' = Finished("getTotalVotes", id, r, r.inner)
  /\ disc' = DiscIdle
  /\ UNCHANGED <<nowMs, chainVars, vote>>
  /\ made' = NoMade
  /\ hist' = NoHist
  /\ UNCHANGED page
  /\ UNCHANGED panel

(***************************************************************************)
(* What a rejected promise of the wallet or of the provider carries: a     *)
(* code and a message. The code is "4001" when the user declines the       *)
(* account request of the wallet, "ACTION_REJECTED" when the user declines *)
(* to sign, "CALL_EXCEPTION" when the contract reverts and "NETWORK_ERROR" *)
(* when the node cannot be reached; the message is a text of the wallet or *)
(* of the library, or is not there.                                        *)
(***************************************************************************)
ErrorMessages == {"request failed", Undefined}

ErrorsWith(codes) == [code : codes, message : ErrorMessages]

AuthorizeErrors == ErrorsWith({"4001", "NETWORK_ERROR"})
SendErrors == ErrorsWith({"ACTION_REJECTED", "CALL_EXCEPTION", "NETWORK_ERROR"})
WaitRevert == ErrorsWith({"CALL_EXCEPTION"})
WaitLost == ErrorsWith({"NETWORK_ERROR"})

\* lines 209-211 and 87-89
NoWalletResult == [success |-> FALSE, error |-> "MetaMask is not installed!"]

(***************************************************************************)
(* The records of a transaction that are shown in the explorer and kept in *)
(* the cache.                                                              *)
(***************************************************************************)
\* receipt.status === 1 ? "Confirmed" : "Failed"
StatusText(status) == IF status = 1 THEN "Confirmed" ELSE "Failed"

\* lines 139-148 and 235-246: the record of a confirmed transaction of this
\* client, from its receipt and the block that confirmed it
TxData(receipt, seconds, method) ==
  [hash |-> receipt.hash, timestamp |-> DateOf(seconds * MsPerSec),
   from |-> receipt.from, to |-> receipt.to, method |-> method, value |-> "0",
   blockNumber |-> receipt.blockNumber, status |-> StatusText(receipt.status)]

\* JSON.stringify(txData)
TxToJSON(tx) == [tx EXCEPT !.timestamp = DateToJSON(@)]

\* JSON.parse of the text: the timestamp comes back as the string it was written as
TxFromJSON(json) == json

\* line 238: block?.timestamp || Math.floor(Date.now() / 1000)
TimestampOrNow(block, ms) == IF block.timestamp # 0 THEN block.timestamp ELSE NowSec(ms)

\* provider.getBlock(receipt.blockNumber)
BlockOf(receipt) == [number |-> receipt.blockNumber, timestamp |-> receipt.timestamp]

(***************************************************************************)
(* Vote Submitter: castVote, one step per awaited call.                    *)
(***************************************************************************)
\* a faulty variant: an error is reported as a success
CastVoteFailureAsSuccess(error) == [success |-> TRUE, error |-> error.message]

\* lines 256-259
CastVoteFailure(error) == [success |-> FALSE, error |-> error.message]

\* line 255
CastVoteSuccess(receipt) == [success |-> TRUE, transactionHash |-> receipt.hash]

\* the call returns
VoteReturn(v, result, error) ==
  [v EXCEPT !.pc = "done", !.result = result, !.error = error,
            !.revertResults = IF error.code = "CALL_EXCEPTION" THEN @ \cup {result} ELSE @]

\* lines 204-211
CastVoteStart(electionId, candidateIndex, voter, hasWallet) ==
  /\ vote.pc \in {"idle", "done"}
  /\ LET v == [VoteIdle EXCEPT !.pc = "authorizing", !.electionId = electionId,
                               !.candidateIndex = candidateIndex, !.voter = voter,
                               !.revertResults = vote.revertResults]
     IN vote' = IF hasWallet THEN v ELSE VoteReturn(v, NoWalletResult, NoError)
  /\ ret' = NoCall
  /\ made' = NoMade
  /\ hist' = NoHist
  /\ page' = IF page.pc = "casting"
             THEN [page EXCEPT !.pc = "awaiting", !.called = TRUE, !.calls = @ + 1]
             ELSE page
  /\ UNCHANGED panel
  /\ UNCHANGED <<nowMs, chainVars, cache, disc>>

\* lines 214-221: eth_requestAccounts and the signer
CastVoteAuthorize(ok, error) ==
  /\ vote.pc = "authorizing"
  /\ vote' = IF ok THEN [vote EXCEPT !.pc = "sending"]
             ELSE VoteReturn(vote, CastVoteFailure(error), error)
  /\ UNCHANGED panel
  /\ ret' = NoCall
  /\ made' = NoMade
  /\ hist' = NoHist
  /\ UNCHANGED page
  /\ UNCHANGED panel
  /\ UNCHANGED <<nowMs, chainVars, cache, disc>>

\* lines 223-227: the transaction is signed and sent, once; the contract call is
\* simulated first, so that a vote the contract does not accept is not sent
CastVoteSend(ok, error) ==
  /\ vote.pc = "sending"
  /\ ok => VoteAcceptable(vote.electionId, vote.candidateIndex + 1, vote.voter)
  /\ vote' = IF ok THEN [vote EXCEPT !.pc = "waiting", !.sent = @ + 1]
             ELSE VoteReturn(vote, CastVoteFailure(error), error)
  /\ ret' = NoCall
  /\ made' = NoMade
  /\ hist' = NoHist
  /\ UNCHANGED page
  /\ UNCHANGED panel
  /\ UNCHANGED <<nowMs, chainVars, cache, disc>>

\* line 230, tx.wait() gives the receipt of the confirmed transaction
CastVoteConfirmed ==
  /\ vote.pc = "waiting"
  /\ ChainCastVote(vote.electionId, vote.candidateIndex + 1, vote.voter, WalletAccount)
  /\ vote' = [vote EXCEPT !.pc = "storing", !.receipt = <<ledger'[Len(ledger')]>>]
  /\ ret' = NoCall
  /\ made' = NoMade
  /\ hist' = NoHist
  /\ UNCHANGED page
  /\ UNCHANGED panel
  /\ UNCHANGED <<nowMs, cache, disc>>

\* a faulty variant: after a wait that rejects the call sends again
CastVoteWaitRetries(error, mined) ==
  /\ vote.pc = "waiting"
  /\ IF mined
     THEN /\ error \in WaitLost
          /\ ChainCastVote(vote.electionId, vote.candidateIndex + 1, vote.voter,
                           WalletAccount)
     ELSE UNCHANGED chainVars
  /\ vote' = [vote EXCEPT !.pc = "sending"]
  /\ ret' = NoCall
  /\ made' = NoMade
  /\ hist' = NoHist
  /\ UNCHANGED page
  /\ UNCHANGED panel
  /\ UNCHANGED <<nowMs, cache, disc>>

\* a faulty variant: a record the key already holds is kept
KeepFirstVoteRecord(c, txData) ==
  IF c[LastVoteKey] # NoEntry THEN c ELSE SetItem(c, LastVoteKey, TxToJSON(txData))

\* line 249
StoreVoteRecord(c, txData) == SetItem(c, LastVoteKey, TxToJSON(txData))

\* a faulty variant: a wait that rejects after the transaction was mined still
\* stores the record of the transaction
CastVoteWaitFailsStores(error, mined) ==
  /\ vote.pc = "waiting"
  /\ IF mined
     THEN /\ error \in WaitLost
          /\ ChainCastVote(vote.electionId, vote.candidateIndex + 1, vote.voter,
                           WalletAccount)
          /\ cache' = StoreVoteRecord(cache,
                                      TxData(ledger'[Len(ledger')], NowSec(nowMs),
                                             "castVote"))
     ELSE UNCHANGED <<chainVars, cache>>
  /\ vote' = VoteReturn(vote, CastVoteFailure(error), error)
  /\ ret' = NoCall
  /\ made' = NoMade
  /\ hist' = NoHist
  /\ UNCHANGED page
  /\ UNCHANGED panel
  /\ UNCHANGED <<nowMs, disc>>

\* line 230, tx.wait() rejects: the transaction was mined but reverted, or the
\* node was lost while the transaction was confirmed or dropped
CastVoteWaitFails(error, mined) ==
  /\ vote.pc = "waiting"
  /\ IF mined
     THEN /\ error \in WaitLost
          /\ ChainCastVote(vote.electionId, vote.candidateIndex + 1, vote.voter,
                           WalletAccount)
     ELSE UNCHANGED chainVars
  /\ vote' = VoteReturn(vote, CastVoteFailure(error), error)
  /\ ret' = NoCall
  /\ made' = NoMade
  /\ hist' = NoHist
  /\ UNCHANGED page
  /\ UNCHANGED panel
  /\ UNCHANGED <<nowMs, cache, disc>>

\* lines 233-255: the confirming block is read and the record is stored; a block
\* that cannot be read or is null, or a write that throws ("setItemFails"),
\* leaves the cache as it is
CastVoteStore(block) ==
  /\ vote.pc = "storing"
  /\ LET receipt == vote.receipt[1]
         stored == block = "read"
     IN /\ cache' = IF stored
                    THEN StoreVoteRecord(cache,
                                         TxData(receipt,
                                                TimestampOrNow(BlockOf(receipt), nowMs),
                                                "castVote"))
                    ELSE cache
        /\ vote' = [VoteReturn(vote, CastVoteSuccess(receipt), NoError)
                      EXCEPT !.wrote = stored,
                             !.replaced = stored /\ cache[LastVoteKey] # NoEntry]
  /\ ret' = NoCall
  /\ made' = NoMade
  /\ hist' = NoHist
  /\ UNCHANGED page
  /\ UNCHANGED panel
  /\ UNCHANGED <<nowMs, chainVars, disc>>

(***************************************************************************)
(* createElection with the browser wallet. `step` is the first step of the *)
(* call that does not succeed ("none" when all do) and `error` what that   *)
(* step rejects with; "waitMined" is a wait that rejects because the node  *)
(* is lost although the transaction is confirmed, "blockNull" a block read *)
(* that gives null, "setItem" a first write of the cache that throws.      *)
(***************************************************************************)
StartDelaySec == 300
EndDelaySec == 3600

CreateSteps ==
  {"wallet", "authorize", "send", "wait", "waitMined", "block", "blockNull",
   "setItem", "currentElectionId", "none"}

\* lines 190-200
CreateElectionFailure(error) ==
  IF error.code = "ACTION_REJECTED"
  THEN [success |-> FALSE, error |-> "Transaction was rejected in MetaMask"]
  ELSE [success |-> FALSE,
        error |-> IF error.message # Undefined THEN error.message
                  ELSE "Unknown error creating election"]

\* lines 158-163
CandidateObjects(cands) ==
  [i \in 1..Len(cands) |->
     [name |-> cands[i].name, party |-> cands[i].party, votes |-> 0, index |-> i - 1]]

\* lines 175-182
CreateElectionSuccess(receipt, electionId) ==
  [success |-> TRUE, transactionHash |-> receipt.hash, electionId |-> electionId,
   from |-> receipt.from, to |-> receipt.to, blockNumber |-> receipt.blockNumber]

\* line 189
CreateElectionIncomplete(receipt) == [success |-> TRUE, transactionHash |-> receipt.hash]

\* a faulty variant: only the end time is tested
DateCheckEndOnly(startSec, endSec, now) ==
  IF endSec <= now
  THEN <<[success |-> FALSE, error |-> "End time must be in the future"]>>
  ELSE <<>>

\* lines 110-117: what the call returns before sending when a date is not in the future
DateCheck(startSec, endSec, now) ==
  IF startSec <= now
  THEN <<[success |-> FALSE, error |-> "Start time must be in the future"]>>
  ELSE IF endSec <= now
       THEN <<[success |-> FALSE, error |-> "End time must be in the future"]>>
       ELSE <<>>

\* lines 135-189: the cache and the result after the transaction is confirmed
CreateElectionStore(c, receipt, newId, cands, step) ==
  IF step \in {"block", "blockNull", "setItem"}
  THEN [cache |-> c, result |-> CreateElectionIncomplete(receipt)]
  ELSE LET c1 == SetItem(c, LastCreationKey,
                         TxToJSON(TxData(receipt, BlockOf(receipt).timestamp,
                                         "createElection")))
       IN IF step = "currentElectionId"
          THEN [cache |-> c1, result |-> CreateElectionIncomplete(receipt)]
          ELSE [cache |-> SetItem(c1, CandidatesKey(newId),
                                  CandidatesToJSON(CandidateObjects(cands))),
                result |-> CreateElectionSuccess(receipt, newId)]

CreateElection(name, startSec, endSec, cands, step, error) ==
  /\ vote.pc \in {"idle", "done"}
  /\ disc.pc \in {"idle", "done"}
  /\ (step = "authorize") => error \in AuthorizeErrors
  /\ (step = "send") => error \in SendErrors
  /\ (step = "wait") => error \in WaitRevert \cup WaitLost
  /\ (step = "waitMined") => error \in WaitLost
  /\ (step \notin {"authorize", "send", "wait", "waitMined"}) => error = NoError
  /\ LET now == NowSec(nowMs)
         early == IF step = "wallet" THEN <<NoWalletResult>>
                  ELSE IF step = "authorize" THEN <<CreateElectionFailure(error)>>
                  ELSE DateCheck(startSec, endSec, now)
     IN IF early # <<>>
        THEN /\ made' = [op |-> "createElection", result |-> early[1],
                         error |-> IF step = "authorize" THEN error ELSE NoError,
                         confirmed |-> FALSE, step |-> step]
             /\ UNCHANGED <<chainVars, cache>>
        ELSE IF step \in {"send", "wait"}
        THEN /\ made' = [op |-> "createElection", result |-> CreateElectionFailure(error),
                         error |-> error, confirmed |-> FALSE, step |-> step]
             /\ UNCHANGED <<chainVars, cache>>
        ELSE IF step = "waitMined"
        THEN /\ ChainCreateElection(name, now + StartDelaySec, now + EndDelaySec, cands,
                                    WalletAccount)
             /\ made' = [op |-> "createElection", result |-> CreateElectionFailure(error),
                         error |-> error, confirmed |-> TRUE, step |-> step]
             /\ UNCHANGED cache
        ELSE /\ ChainCreateElection(name, now + StartDelaySec, now + EndDelaySec, cands,
                                    WalletAccount)
             /\ LET receipt == ledger'[Len(ledger')]
                    r == CreateElectionStore(cache, receipt, currentElectionId', cands, step)
                IN /\ cache' = r.cache
                   /\ made' = [op |-> "createElection", result |-> r.result,
                               error |-> NoError, confirmed |-> TRUE, step |-> step]
  /\ ret' = NoCall
  /\ hist' = NoHist
  /\ UNCHANGED page
  /\ UNCHANGED panel
  /\ UNCHANGED <<nowMs, disc, vote>>

(***************************************************************************)
(* History Reconstructor: getContractTransactions. What the node answers   *)
(* during one call is the record `rpc`:                                    *)
(*   currentIdOk      the read of currentElectionId succeeds               *)
(*   rounds[id]       electionOk: the read of round id succeeds;           *)
(*                    creation: the ElectionCreated query gives the event  *)
(*                    ("found"), gives no event ("none"), fails ("fails"), *)
(*                    or gives the event and a read of the event's         *)
(*                    transaction, receipt or block fails ("readFails");   *)
(*                    voteReads: the number of VoteCast events of the      *)
(*                    round that are read before a read fails              *)
(*   scan             latestOk: the latest block number is read, and is    *)
(*                    `gap` blocks after the contract's last transaction;  *)
(*                    blocksOk: the blocks can be read; selectors: the     *)
(*                    call data holds the selectors written in the code    *)
(*   console          whether a performance entry named console.log is     *)
(*                    there ("none" if not) and the transaction written in *)
(*                    the code can be read ("found") or not ("fails")      *)
(***************************************************************************)
SynthHashDigits == 64
HexPerChar == 2

ZeroAddress == "0x0000000000000000000000000000000000000000"

DigitChars == <<"0", "1", "2", "3", "4", "5", "6", "7", "8", "9">>

RECURSIVE Digits(_)
\* the decimal text of a number, as `election.name + id` appends it
Digits(n) ==
  IF n < 10 THEN <<DigitChars[n + 1]>> ELSE Digits(n \div 10) \o <<DigitChars[(n % 10) + 1]>>

Prefix(chars, n) == SubSeq(chars, 1, IF Len(chars) < n THEN Len(chars) ELSE n)

\* lines 612-615: two hex digits for each character of name + id, cut at 64 digits
SynthHash(name, id) ==
  TxHash("synthesized", 0, "", Prefix(name \o Digits(id), SynthHashDigits \div HexPerChar))

\* line 758
KnownHash ==
  TxHash("known", 0, "",
         <<"0xb9980e0f5557844fcf9409074df1e3c86bb6c2aec5e4c6e9795250c899513ac9">>)

\* lines 594-603 and 637-646: the record of the transaction of an event
EventRecord(m, method) ==
  [hash |-> m.hash, timestamp |-> DateOf(m.timestamp * MsPerSec), from |-> m.from,
   to |-> m.to, method |-> method, value |-> m.value, blockNumber |-> m.blockNumber,
   status |-> StatusText(m.status)]

\* a faulty variant: the placeholder is dated at the round's start
SynthesizedAtStart(id, election) ==
  [hash |-> SynthHash(election.name, id),
   timestamp |-> DateOf(election.startTime * MsPerSec),
   from |-> ZeroAddress, to |-> CONTRACT_ADDRESS, method |-> "createElection",
   value |-> "0", blockNumber |-> 0, status |-> "Confirmed"]

\* lines 573-576 and 611-623: the placeholder made from the round's data
Synthesized(id, election) ==
  [hash |-> SynthHash(election.name, id),
   timestamp |-> DateOf(election.startTime * MsPerSec - MsPerDay),
   from |-> ZeroAddress, to |-> CONTRACT_ADDRESS, method |-> "createElection",
   value |-> "0", blockNumber |-> 0, status |-> "Confirmed"]

\* contract.queryFilter(contract.filters.ElectionCreated(id))
CreationEvents(id) ==
  SelectSeq(ledger, LAMBDA m : m.method = "createElection" /\ m.round = id)

\* contract.queryFilter(contract.filters.VoteCast(id))
VoteEvents(id) == SelectSeq(ledger, LAMBDA m : m.method = "castVote" /\ m.round = id)

\* lines 579-624: the catch of line 607 takes a failure of the query and a
\* failure of the reads of lines 588-592 alike
CreationRecords(id, election, view) ==
  IF view.creation = "fails" THEN <<Synthesized(id, election)>>
  ELSE IF Len(CreationEvents(id)) = 0 THEN <<>>
       ELSE IF view.creation = "readFails" THEN <<Synthesized(id, election)>>
            ELSE IF view.creation = "found"
                 THEN <<EventRecord(CreationEvents(id)[1], "createElection")>>
                 ELSE <<>>

\* lines 626-654: the records pushed before a read fails are kept
VoteRecords(id, view) ==
  LET events == VoteEvents(id)
      read == Prefix(events, view.voteReads)
  IN [k \in 1..Len(read) |-> EventRecord(read[k], "castVote")]

\* a faulty variant: a round whose creation query failed gets its placeholder and
\* its votes are not queried
RoundRecordsCreationFirst(id, view) ==
  IF ~view.electionOk THEN <<>>
  ELSE IF ~ElectionAt(id).exists THEN <<>>
       ELSE IF view.creation = "fails"
            THEN CreationRecords(id, ElectionAt(id), view)
            ELSE CreationRecords(id, ElectionAt(id), view) \o VoteRecords(id, view)

\* lines 562-657: one round of the loop
RoundRecords(id, view) ==
  IF ~view.electionOk THEN <<>>
  ELSE IF ~ElectionAt(id).exists THEN <<>>
       ELSE CreationRecords(id, ElectionAt(id), view) \o VoteRecords(id, view)

RECURSIVE EventLayer(_, _, _)
\* lines 561-658
EventLayer(id, electionCount, views) ==
  IF id > electionCount THEN <<>>
  ELSE RoundRecords(id, views[id]) \o EventLayer(id + 1, electionCount, views)

HasHash(transactions, hash) == \E k \in 1..Len(transactions) : transactions[k].hash = hash

\* lines 695-701
ScanMethod(m, selectors) == IF selectors THEN m.method ELSE "Contract Interaction"

\* lines 703-712
ScanRecord(m, selectors) ==
  [hash |-> m.hash, timestamp |-> DateOf(m.timestamp * MsPerSec), from |-> m.from,
   to |-> m.to, method |-> ScanMethod(m, selectors), value |-> m.value,
   blockNumber |-> m.blockNumber, status |-> StatusText(m.status)]

\* lines 678-686: the transactions of block i that involve the contract
BlockTransactions(i) == SelectSeq(ledger, LAMBDA m : m.blockNumber = i)

RECURSIVE AddUnknown(_, _, _)
\* lines 689-713
AddUnknown(transactions, txs, selectors) ==
  IF txs = <<>> THEN transactions
  ELSE IF HasHash(transactions, Head(txs).hash)
       THEN AddUnknown(transactions, Tail(txs), selectors)
       ELSE AddUnknown(Append(transactions, ScanRecord(Head(txs), selectors)),
                       Tail(txs), selectors)

\* a faulty variant: the loop goes on whatever the number of records
ScanIgnoresCap(i, startBlock, transactions) ==
  i >= startBlock /\ Len(transactions) >= 0

\* line 674: the condition of the loop over the blocks
ScanContinues(i, startBlock, transactions) ==
  i >= startBlock /\ Len(transactions) < MaxTransactions

\* lines 677-717: one block of the loop, a block that cannot be read adds nothing
ScanBlock(i, transactions, view) ==
  IF view.blocksOk
  THEN AddUnknown(transactions, BlockTransactions(i), view.selectors)
  ELSE transactions

RECURSIVE ScanFrom(_, _, _, _)
\* lines 672-718: the loop over the blocks
ScanFrom(i, startBlock, transactions, view) ==
  IF ~ScanContinues(i, startBlock, transactions) THEN transactions
  ELSE ScanFrom(i - ScanStride, startBlock, ScanBlock(i, transactions, view), view)

RECURSIVE ScanVisits(_, _, _, _)
\* lines 672-678: the blocks the loop reads, in the order it reads them, each
\* with the number of records there were when it was read
ScanVisits(i, startBlock, transactions, view) ==
  IF ~ScanContinues(i, startBlock, transactions) THEN <<>>
  ELSE <<[block |-> i, count |-> Len(transactions)]>>
         \o ScanVisits(i - ScanStride, startBlock, ScanBlock(i, transactions, view), view)

\* line 663: the number of the latest block
LatestBlock(view) == Len(ledger) * ScanStride + view.gap

\* line 665
StartBlock(latestBlock) == Max(0, latestBlock - searchRange)

\* lines 661-721
ScanLayer(transactions, view) ==
  IF ~view.latestOk THEN transactions
  ELSE ScanFrom(LatestBlock(view), StartBlock(LatestBlock(view)), transactions, view)

\* lines 661-721: the blocks read by the scan
ScanLayerVisits(transactions, view) ==
  IF ~view.latestOk THEN <<>>
  ELSE ScanVisits(LatestBlock(view), StartBlock(LatestBlock(view)), transactions, view)

\* lines 724-734 and 737-747
MergeCached(transactions, c, key) ==
  IF c[key] = NoEntry THEN transactions
  ELSE LET txData == TxFromJSON(c[key][1])
       IN IF HasHash(transactions, txData.hash) THEN transactions
          ELSE Append(transactions, txData)

\* lines 723-747
CachedLayer(transactions, c) ==
  MergeCached(MergeCached(transactions, c, LastCreationKey), c, LastVoteKey)

\* lines 765-774: the transaction written in the code is older than any of the model
KnownRecord ==
  [hash |-> KnownHash, timestamp |-> DateOf(0), from |-> OtherAccount,
   to |-> CONTRACT_ADDRESS, method |-> "createElection", value |-> "0",
   blockNumber |-> 0, status |-> "Confirmed"]

\* lines 749-779
KnownLayer(transactions, console) ==
  IF Len(transactions) = 0 /\ console = "found" THEN <<KnownRecord>> ELSE transactions

\* timestamp?.getTime(): a Date has getTime, the string JSON.parse gives has not
GetTimeThrows(tx) == tx.timestamp.type # "Date"

\* b.timestamp?.getTime() || 0
TimeKey(tx) == tx.timestamp.ms

\* the comparator is called on every element of a list of two or more
SortThrows(transactions) ==
  Len(transactions) >= 2 /\ \E k \in 1..Len(transactions) : GetTimeThrows(transactions[k])

RECURSIVE InsertNewestFirst(_, _)
InsertNewestFirst(sorted, tx) ==
  IF sorted = <<>> THEN <<tx>>
  ELSE IF TimeKey(Head(sorted)) >= TimeKey(tx)
       THEN <<Head(sorted)>> \o InsertNewestFirst(Tail(sorted), tx)
       ELSE <<tx>> \o sorted

\* a faulty variant: the merged records are returned in the order of the layers
KeepMergeOrder(transactions) == transactions

RECURSIVE SortNewestFirst(_)
\* lines 782-784: Array.prototype.sort is stable
SortNewestFirst(transactions) ==
  IF transactions = <<>> THEN <<>>
  ELSE InsertNewestFirst(SortNewestFirst(SubSeq(transactions, 1, Len(transactions) - 1)),
                         transactions[Len(transactions)])

CountKind(transactions, kind) ==
  Cardinality({k \in 1..Len(transactions) : transactions[k].hash.kind = kind})

\* lines 549-789: the whole call
GetContractTransactionsCall(c, rpc) ==
  IF ~rpc.currentIdOk
  THEN [NoHist EXCEPT !.op = "getContractTransactions", !.rpc = rpc]
  ELSE LET events == EventLayer(1, currentElectionId, rpc.rounds)
           scanned == ScanLayer(events, rpc.scan)
           cached == CachedLayer(scanned, c)
           merged == KnownLayer(cached, rpc.console)
       IN [op |-> "getContractTransactions",
           value |-> IF SortThrows(merged) THEN <<>> ELSE SortNewestFirst(merged),
           merged |-> merged, currentIdRead |-> TRUE, sortThrew |-> SortThrows(merged),
           rpc |-> rpc, visited |-> ScanLayerVisits(events, rpc.scan),
           layers |-> [events |-> Len(events) - CountKind(events, "synthesized"),
                       synthesized |-> CountKind(events, "synthesized"),
                       scanned |-> Len(scanned) - Len(events),
                       cached |-> Len(cached) - Len(scanned),
                       known |-> Len(merged) - Len(cached)]]

RoundViews ==
  {[electionOk |-> FALSE, creation |-> "none", voteReads |-> 0]}
    \cup [electionOk : {TRUE}, creation : {"found", "none", "fails", "readFails"},
          voteReads : 0..MaxVotes]

ScanViews ==
  {[latestOk |-> FALSE, blocksOk |-> FALSE, gap |-> 0, selectors |-> FALSE],
   [latestOk |-> TRUE, blocksOk |-> FALSE, gap |-> 0, selectors |-> FALSE]}
    \cup [latestOk : {TRUE}, blocksOk : {TRUE}, gap : {0, ScanStride \div 2},
          selectors : BOOLEAN]

NoScan == [latestOk |-> FALSE, blocksOk |-> FALSE, gap |-> 0, selectors |-> FALSE]

RpcViews(electionCount) ==
  {[currentIdOk |-> FALSE, rounds |-> <<>>, scan |-> NoScan, console |-> "none"]}
    \cup [currentIdOk : {TRUE}, rounds : [1..electionCount -> RoundViews],
          scan : ScanViews, console : {"none", "found", "fails"}]

GetContractTransactions(rpc) ==
  /\ hist' = GetContractTransactionsCall(cache, rpc)
  /\ UNCHANGED page
  /\ UNCHANGED panel
  /\ ret' = NoCall
  /\ made' = NoMade
  /\ UNCHANGED <<nowMs, chainVars, cache, disc, vote>>

(***************************************************************************)
(* The environment: the clock, and the other clients of the contract.      *)
(***************************************************************************)
Tick(d) ==
  /\ nowMs + d <= MaxNowMs
  /\ nowMs' = nowMs + d
  /\ ret' = NoCall
  /\ UNCHANGED <<chainVars, cache, disc, vote>>
  /\ made' = NoMade
  /\ hist' = NoHist
  /\ UNCHANGED page
  /\ UNCHANGED panel

\* a vote of another client of the contract is confirmed
OtherClientVote(id, idx, voter) ==
  /\ ChainCastVote(id, idx, voter, OtherAccount)
  /\ ret' = NoCall
  /\ UNCHANGED <<nowMs, cache, disc, vote>>
  /\ made' = NoMade
  /\ hist' = NoHist
  /\ UNCHANGED page
  /\ UNCHANGED panel

\* createElectionWithPrivateKey: sends the round as given and writes no cache
CreateElectionWithPrivateKey(name, startTime, endTime, cands) ==
  /\ ChainCreateElection(name, startTime, endTime, cands, OtherAccount)
  /\ ret' = NoCall
  /\ UNCHANGED <<nowMs, cache, disc, vote>>
  /\ made' = NoMade
  /\ hist' = NoHist
  /\ UNCHANGED page
  /\ UNCHANGED panel

\* another client allocates an id whose round is not populated
AllocateElection(startTime, endTime) ==
  /\ ChainAllocateElection(startTime, endTime)
  /\ ret' = NoCall
  /\ UNCHANGED <<nowMs, cache, disc, vote>>
  /\ made' = NoMade
  /\ hist' = NoHist
  /\ UNCHANGED page
  /\ UNCHANGED panel

EmptyCache == [k \in CacheKeys |-> NoEntry]

Init ==
  /\ nowMs = MsPerSec
  /\ currentElectionId = 0
  /\ elections = [id \in RoundIds |-> NoElection]
  /\ chainCandidates = [id \in RoundIds |-> <<>>]
  /\ cache = EmptyCache
  /\ ledger = <<>>
  /\ disc = DiscIdle
  /\ ret = NoCall
  /\ vote = VoteIdle
  /\ made = NoMade
  /\ hist = NoHist
  /\ page = PageIdle
  /\ panel = PanelMounted

(***************************************************************************)
(* Round Discovery against a chain on which rounds are being created.      *)
(***************************************************************************)
NextDiscovery ==
  \/ \E ok \in BOOLEAN : DiscStart(ok)
  \/ \E ok \in BOOLEAN : DiscFast(ok)
  \/ \E ok \in BOOLEAN : DiscProbe(ok)
  \/ Tick(MsPerSec)
  \/ \E w \in Windows : CreateElectionWithPrivateKey(<<"R">>, w[1], w[2], <<>>)

SpecDiscovery == Init /\ [][NextDiscovery]_vars

(***************************************************************************)
(* The readers, called one at a time for the first round and for the id    *)
(* after it, while that round is created, voted in and the clock advances. *)
(***************************************************************************)
CandLists == {SubSeq(<<[name |-> "A", party |-> "X"], [name |-> "B", party |-> "Y"],
                       [name |-> "C", party |-> "Z"]>>, 1, n) : n \in 0..MaxCands}

ReaderIds == 1..2

NextReader ==
  \/ \E id \in ReaderIds, ok \in BOOLEAN : GetAllCandidates(id, ok, TRUE)
  \/ \E id \in ReaderIds, ok \in BOOLEAN : GetElectionInfo(id, ok, TRUE)
  \/ \E id \in ReaderIds, directOk \in BOOLEAN, candidatesOk \in BOOLEAN :
        GetTotalVotes(id, directOk, candidatesOk)
  \/ Tick(MsPerSec)
  \/ \E w \in Windows, cands \in CandLists :
        currentElectionId = 0 /\ CreateElectionWithPrivateKey(<<"R">>, w[1], w[2], cands)
  \/ \E id \in ReaderIds, idx \in 1..MaxCands : OtherClientVote(id, idx, "nin-1")

SpecReader == Init /\ [][NextReader]_vars

(***************************************************************************)
(* The four reader operations, called one at a time, on a chain that holds *)
(* no round or one round.                                                  *)
(***************************************************************************)
NextCacheUse ==
  \/ \E id \in ReaderIds, ok \in BOOLEAN : GetAllCandidates(id, ok, TRUE)
  \/ \E id \in ReaderIds, ok \in BOOLEAN : GetElectionInfo(id, ok, TRUE)
  \/ \E id \in ReaderIds, directOk \in BOOLEAN, candidatesOk \in BOOLEAN :
        GetTotalVotes(id, directOk, candidatesOk)
  \/ \E ok \in BOOLEAN : DiscStart(ok)
  \/ \E ok \in BOOLEAN : DiscFast(ok)
  \/ \E ok \in BOOLEAN : DiscProbe(ok)
  \/ \E w \in Windows, cands \in CandLists :
        currentElectionId = 0 /\ CreateElectionWithPrivateKey(<<"R">>, w[1], w[2], cands)

SpecCacheUse == Init /\ [][NextCacheUse]_vars

(***************************************************************************)
(* The Vote Submitter, called again and again for the first round by       *)
(* voters of this browser while another client votes too.                  *)
(***************************************************************************)
VoterHashes == {"nin-1", "nin-2"}

\* what the block read and the write of castVote's store step can do
StoreOutcomes == {"read", "null", "fails", "setItemFails"}

\* what a step of createElection can reject with
CreateErrors == AuthorizeErrors \cup SendErrors \cup WaitRevert \cup WaitLost \cup {NoError}

TwoCandidates == <<[name |-> "A", party |-> "X"], [name |-> "B", party |-> "Y"]>>

NextVote ==
  \/ \E voter \in VoterHashes, hasWallet \in BOOLEAN : CastVoteStart(1, 0, voter, hasWallet)
  \/ \E ok \in BOOLEAN, error \in AuthorizeErrors : CastVoteAuthorize(ok, error)
  \/ \E ok \in BOOLEAN, error \in SendErrors : CastVoteSend(ok, error)
  \/ CastVoteConfirmed
  \/ \E error \in WaitRevert \cup WaitLost, mined \in BOOLEAN : CastVoteWaitFails(error, mined)
  \/ \E block \in StoreOutcomes : CastVoteStore(block)
  \/ Tick(MsPerSec)
  \/ currentElectionId = 0 /\ CreateElectionWithPrivateKey(<<"R">>, 1, MaxSec, TwoCandidates)
  \/ \E step \in CreateSteps, error \in CreateErrors :
        /\ currentElectionId = 0
        /\ CreateElection(<<"R">>, NowSec(nowMs) + 1, NowSec(nowMs) + 2, TwoCandidates,
                          step, error)
  \/ OtherClientVote(1, 1, "nin-1")

SpecVote == Init /\ [][NextVote]_vars

(***************************************************************************)
(* The History Reconstructor, called while the first round is created from *)
(* this browser or by another client and votes are cast in it. A call that *)
(* follows a call at once sees the chain and the cache the first one saw.  *)
(***************************************************************************)
OneCandidate == <<[name |-> "A", party |-> "X"]>>

NodeLost == [code |-> "NETWORK_ERROR", message |-> "request failed"]

NextHistory ==
  \/ \E rpc \in RpcViews(currentElectionId) : hist = NoHist /\ GetContractTransactions(rpc)
  \/ \E step \in CreateSteps, startIn \in 0..1, endIn \in 0..1 :
        /\ currentElectionId = 0
        /\ CreateElection(<<"R">>, NowSec(nowMs) + startIn, NowSec(nowMs) + endIn,
                          OneCandidate, step,
                          IF step \in {"authorize", "send", "wait", "waitMined"}
                          THEN NodeLost ELSE NoError)
  \/ currentElectionId = 0 /\ CreateElectionWithPrivateKey(<<"R">>, 1, MaxSec, OneCandidate)
  \/ CastVoteStart(1, 0, "nin-1", TRUE)
  \/ CastVoteAuthorize(TRUE, NodeLost)
  \/ \E ok \in BOOLEAN : CastVoteSend(ok, NodeLost)
  \/ CastVoteConfirmed
  \/ CastVoteStore("read")
  \/ OtherClientVote(1, 1, "nin-2")

SpecHistory == Init /\ [][NextHistory]_vars

(***************************************************************************)
(* The History Reconstructor over several rounds: rounds are created by    *)
(* the private-key path (nothing is cached), under a name of one character *)
(* or under a name as long as the part of `name + id` that line 615 keeps; *)
(* a round starts at the second that is the length of its name.            *)
(***************************************************************************)
LongName == [k \in 1..(SynthHashDigits \div HexPerChar) |-> "x"]

RoundNames == {<<"R">>, LongName}

\* the answers of the node in which the votes of a round are read all or not at
\* all, the blocks are scanned from the last transaction or not at all, and no
\* performance entry is there
RoundsRpcViews(electionCount) ==
  [currentIdOk : {TRUE},
   rounds : [1..electionCount -> {view \in RoundViews : view.voteReads \in {0, MaxVotes}}],
   scan : {NoScan, [latestOk |-> TRUE, blocksOk |-> TRUE, gap |-> 0, selectors |-> TRUE]},
   console : {"none"}]

NextHistoryRounds ==
  \/ \E rpc \in RoundsRpcViews(currentElectionId) :
        hist = NoHist /\ GetContractTransactions(rpc)
  \/ \E name \in RoundNames :
        CreateElectionWithPrivateKey(name, Len(name), Len(name) + 1, OneCandidate)
  \/ OtherClientVote(1, 1, "nin-1")

SpecHistoryRounds == Init /\ [][NextHistoryRounds]_vars

(***************************************************************************)
(* The History Reconstructor over several rounds in a browser that created *)
(* some of them itself (the wallet path caches lastElectionCreationTx),    *)
(* with votes of other clients in every round.                             *)
(***************************************************************************)
\* the answers of the node in which the read of a round fails or succeeds, its
\* creation query gives the event or fails, and its votes are read all or not
\* at all
LayersRpcViews(electionCount) ==
  [currentIdOk : {TRUE},
   rounds : [1..electionCount ->
               {[electionOk |-> FALSE, creation |-> "none", voteReads |-> 0]}
                 \cup [electionOk : {TRUE}, creation : {"found", "fails"},
                       voteReads : {0, MaxVotes}]],
   scan : {NoScan, [latestOk |-> TRUE, blocksOk |-> TRUE, gap |-> 0, selectors |-> TRUE]},
   console : {"none"}]

NextLayers ==
  \/ \E rpc \in LayersRpcViews(currentElectionId) :
        hist = NoHist /\ GetContractTransactions(rpc)
  \/ CreateElection(<<"R">>, NowSec(nowMs) + 1, NowSec(nowMs) + 2, OneCandidate,
                    "none", NoError)
  \/ CreateElectionWithPrivateKey(<<"R">>, 1, MaxSec, OneCandidate)
  \/ \E id \in RoundIds : OtherClientVote(id, 1, "nin-1")

SpecLayers == Init /\ [][NextLayers]_vars

(***************************************************************************)
(* The Candidate/Tally Reader in a browser whose localStorage may throw on *)
(* every access during a call (storage blocked for the site).              *)
(***************************************************************************)
NextStorage ==
  \/ \E id \in ReaderIds, ok \in BOOLEAN, storageOk \in BOOLEAN :
        GetAllCandidates(id, ok, storageOk)
  \/ \E id \in ReaderIds, ok \in BOOLEAN, storageOk \in BOOLEAN :
        GetElectionInfo(id, ok, storageOk)
  \/ Tick(MsPerSec)
  \/ \E w \in Windows, cands \in CandLists :
        currentElectionId = 0 /\ CreateElectionWithPrivateKey(<<"R">>, w[1], w[2], cands)
  \/ \E id \in ReaderIds, idx \in 1..MaxCands : OtherClientVote(id, idx, "nin-1")

SpecStorage == Init /\ [][NextStorage]_vars

(***************************************************************************)
(* Round Discovery against a chain that also holds ids whose round is not  *)
(* populated, with a stored window that contains now; the clock stands.    *)
(***************************************************************************)
NextTombstones ==
  \/ \E ok \in BOOLEAN : DiscStart(ok)
  \/ \E ok \in BOOLEAN : DiscFast(ok)
  \/ \E ok \in BOOLEAN : DiscProbe(ok)
  \/ \E w \in Windows : CreateElectionWithPrivateKey(<<"R">>, w[1], w[2], <<>>)
  \/ AllocateElection(1, MaxSec)

SpecTombstones == Init /\ [][NextTombstones]_vars

(***************************************************************************)
(* The block scan against a chain that holds more transactions than the    *)
(* cap: one round, created by another client, and votes of other clients,  *)
(* one transaction in each block that is a multiple of the stride. The     *)
(* latest block is the block of the last transaction, or lies half a       *)
(* stride, a whole search range, or a search range and half a stride       *)
(* after it.                                                               *)
(***************************************************************************)
ScanVoters ==
  <<"v01", "v02", "v03", "v04", "v05", "v06", "v07", "v08", "v09", "v10", "v11",
    "v12", "v13", "v14", "v15", "v16", "v17", "v18", "v19", "v20", "v21", "v22">>

\* the numbers of votes on the chain: none, one, and around the cap
LedgerVotes ==
  {0, 1, MaxTransactions - 2, MaxTransactions - 1, MaxTransactions, MaxTransactions + 1}

\* the contract's transactions when votes have been cast after the creation
LedgerOf(votes) ==
  [k \in 1..(votes + 1) |->
     IF k = 1
     THEN Mined(CreationHash(1), "createElection", 1, "", OtherAccount,
                [number |-> ScanStride, timestamp |-> 1])
     ELSE Mined(VoteHash(1, ScanVoters[k - 1]), "castVote", 1, ScanVoters[k - 1],
                OtherAccount, [number |-> k * ScanStride, timestamp |-> k])]

InitScan ==
  /\ nowMs = MsPerSec
  /\ currentElectionId = 1
  /\ elections = [id \in RoundIds |->
                    IF id = 1
                    THEN [exists |-> TRUE, startTime |-> 1, endTime |-> MaxSec,
                          name |-> <<"R">>]
                    ELSE NoElection]
  /\ \E votes \in LedgerVotes :
        /\ chainCandidates = [id \in RoundIds |->
                                IF id = 1
                                THEN <<[name |-> "A", party |-> "X", votes |-> votes]>>
                                ELSE <<>>]
        /\ ledger = LedgerOf(votes)
  /\ cache = EmptyCache
  /\ disc = DiscIdle
  /\ ret = NoCall
  /\ vote = VoteIdle
  /\ made = NoMade
  /\ hist = NoHist
  /\ page = PageIdle
  /\ panel = PanelMounted

\* what the node answers: the events of the round are read all, half or not at
\* all; the blocks can be read or not
ScanRpcViews ==
  [currentIdOk : {TRUE},
   rounds : [1..1 -> [electionOk : {TRUE}, creation : {"found", "none"},
                      voteReads : {0, (Len(ledger) - 1) \div 2, Len(ledger) - 1}]],
   scan : {NoScan} \cup
          [latestOk : {TRUE}, blocksOk : BOOLEAN,
           gap : {0, ScanStride \div 2, searchRange, searchRange + ScanStride \div 2},
           selectors : {TRUE}],
   console : {"none"}]

NextScan == \E rpc \in ScanRpcViews : hist = NoHist /\ GetContractTransactions(rpc)

SpecScan == InitScan /\ [][NextScan]_vars

(***************************************************************************)
(* Claims about Round Discovery.                                           *)
(***************************************************************************)
\* the rounds that exist and whose window contains the second `sec`
RoundActive(id, sec) ==
  /\ ElectionAt(id).exists
  /\ ElectionAt(id).startTime <= sec
  /\ sec <= ElectionAt(id).endTime

ActiveIds(sec) == {id \in RoundIds : RoundActive(id, sec)}

\* the call has returned, and neither the clock nor the chain moved during it
DiscCalm ==
  disc.pc = "done" /\ disc.t0 = nowMs /\ disc.id0 = currentElectionId

\* the scanned ids whose read did not fail and whose round is active now
ScanCandidates ==
  {id \in 1..Max(disc.cur, maxElectionsToCheck) :
     id \notin disc.failed /\ RoundActive(id, nowMs \div MsPerSec)}

C5_ReadFailureNotFatal ==
  (DiscCalm /\ disc.reads > 0 /\ disc.failed # {} /\ ScanCandidates # {})
    => (disc.ret # 0 /\ RoundActive(disc.ret, nowMs \div MsPerSec))
(***************************************************************************)
(* Claims about the Candidate/Tally Reader.                                *)
(***************************************************************************)
\* the JSON text of the list a successful chain read of round id's candidates gives
ChainListJSON(id) ==
  [i \in 1..Len(chainCandidates[id]) |->
     [name |-> chainCandidates[id][i].name, party |-> chainCandidates[id][i].party,
      votes |-> chainCandidates[id][i].votes, index |-> i - 1]]

\* two candidate lists with the same length and the same fields per element
SameCandidates(a, b) ==
  /\ Len(a) = Len(b)
  /\ \A i \in 1..Len(a) :
       /\ a[i].name = b[i].name
       /\ a[i].party = b[i].party
       /\ a[i].votes = b[i].votes
       /\ a[i].index = b[i].index

C3_FailureReturnsCachedList ==
  [][\A id \in ReaderIds :
       (/\ ret'.op = "getAllCandidates" /\ ret'.id = id /\ ret'.failed
        /\ cache[CandidatesKey(id)] # NoEntry) =>
         /\ SameCandidates(ret'.value, cache[CandidatesKey(id)][1])
         /\ cache' = cache]_vars

\* C3 witness: a failed read returned the two cached candidates, which are no
\* longer what the chain holds
C3_Witness ==
  /\ ret.op = "getAllCandidates" /\ ret.failed
  /\ Len(ret.value) = 2
  /\ SameCandidates(ret.value, cache[CandidatesKey(ret.id)][1])
  /\ ~SameCandidates(ret.value, ChainListJSON(ret.id))

\* C4 (as stated): a reader operation reads a cache entry only in a call whose
\* chain read has failed.
C4_CacheReadOnlyAfterFailure ==
  /\ (ret.op # "none" /\ ret.reads # {}) => ret.failed
  /\ (disc.pc = "done" /\ disc.cacheReads # {}) => disc.via = "error"

\* C4 (amended): getAllCandidates and getTotalVotes read a cache entry only in a
\* call whose candidate read has failed, and what they return after a successful
\* read is what the chain holds. getElectionInfo reads election_<id>_info in
\* every call and, when its chain read succeeds, the cached candidate list too:
\* candidateCount is the length of that list, and every other field returned
\* comes from the chain. getActiveElectionId reads the cached candidates of the
\* current round on its fast path only, and returns the id read from the chain.
C4_CacheUse ==
  /\ (ret.op \in {"getAllCandidates", "getTotalVotes"} /\ ret.reads # {}) => ret.failed
  /\ (ret.op = "getAllCandidates" /\ ~ret.failed) =>
       SameCandidates(ret.value, ChainListJSON(ret.id))
  /\ (ret.op = "getTotalVotes" /\ ~ret.failed) =>
       ret.value = VotesCast(chainCandidates[ret.id])
  /\ (ret.op = "getElectionInfo" /\ ret.failed) => ret.reads = {InfoKey(ret.id)}
  /\ (ret.op = "getElectionInfo" /\ ~ret.failed) =>
       /\ ret.reads = {InfoKey(ret.id), CandidatesKey(ret.id)}
       /\ ret.value[1].name = ElectionAt(ret.id).name
       /\ ret.value[1].startTime = DateOf(ElectionAt(ret.id).startTime * MsPerSec)
       /\ ret.value[1].endTime = DateOf(ElectionAt(ret.id).endTime * MsPerSec)
       /\ ret.value[1].active =
            (/\ ElectionAt(ret.id).exists
             /\ ElectionAt(ret.id).startTime * MsPerSec <= nowMs
             /\ nowMs <= ElectionAt(ret.id).endTime * MsPerSec)
       /\ ret.value[1].candidateCount =
            (IF cache[CandidatesKey(ret.id)] = NoEntry THEN 0
             ELSE Len(cache[CandidatesKey(ret.id)][1]))
  /\ disc.pc = "done" =>
       disc.cacheReads = (IF disc.via = "fast" THEN {CandidatesKey(disc.cur)} ELSE {})
  /\ (disc.pc = "done" /\ disc.via = "fast") => disc.ret = currentElectionId

\* C4 witness: a getElectionInfo call whose chain read succeeded returned a
\* candidateCount taken from the cached candidate list
C4_Witness ==
  /\ ret.op = "getElectionInfo" /\ ~ret.failed
  /\ CandidatesKey(ret.id) \in ret.reads
  /\ ret.value[1].candidateCount > 0

VoteSum(list) == VotesCast(list)

\* C8: when the direct aggregate fails, getTotalVotes returns the sum of the
\* votes over the list its own getAllCandidates call returned, 0 for an empty
\* list; when the aggregate succeeds no list is fetched.
C8_TotalIsSumOfCandidates ==
  ret.op = "getTotalVotes" =>
    /\ ret.failed <=> ret.inner # <<>>
    /\ ret.failed =>
         /\ ret.value = VoteSum(ret.inner[1])
         /\ (ret.inner[1] = <<>> => ret.value = 0)

\* C8 witness: the fallback summed a list of two candidates that hold votes
C8_Witness ==
  /\ ret.op = "getTotalVotes" /\ ret.failed
  /\ Len(ret.inner[1]) = 2 /\ ret.value > 0

(***************************************************************************)
(* Claims about the Vote Submitter.                                        *)
(***************************************************************************)
\* the codes of an error that says the user declined
UserRejectionCodes == {"4001", "ACTION_REJECTED"}

\* C6 (as stated): when castVote has failed because the user declined the
\* account request or the signature, the call has written no cache key and the
\* result it returned is none of the results castVote has returned for a
\* revert of the contract.
C6_RejectionDistinguishedFromRevert ==
  (vote.pc = "done" /\ vote.error.code \in UserRejectionCodes)
    => (~vote.wrote /\ vote.result \notin vote.revertResults)

(***************************************************************************)
(* Claims about the History Reconstructor.                                 *)
(***************************************************************************)
HistDone == hist.op = "getContractTransactions"

\* the records the cache holds under its two transaction keys
CachedRecords ==
  {cache[key][1] : key \in {k \in {LastCreationKey, LastVoteKey} : cache[k] # NoEntry}}

\* C9 (as stated): getContractTransactions always returns a sequence, and when
\* the sequence is empty no layer had a record to give: nothing was merged from
\* the events, the placeholders, the block scan or the cache, and the cache holds
\* no last-creation and no last-vote record.
C9_EmptyOnlyWhenEveryLayerEmpty ==
  (HistDone /\ hist.value = <<>>) => (hist.merged = <<>> /\ CachedRecords = {})

\* no event was found, no placeholder made and no block scanned in the finished call
NothingButCache ==
  /\ HistDone
  /\ hist.rpc.currentIdOk
  /\ \A id \in DOMAIN hist.rpc.rounds :
        hist.rpc.rounds[id].electionOk =>
          (hist.rpc.rounds[id].creation = "none" /\ hist.rpc.rounds[id].voteReads = 0)
  /\ ~(hist.rpc.scan.latestOk /\ hist.rpc.scan.blocksOk)
  /\ hist.rpc.console = "none"

NewestFirst(transactions) ==
  \A j, k \in 1..Len(transactions) :
     j < k => transactions[j].timestamp.ms >= transactions[k].timestamp.ms

\* C10 (as stated): when no event is found and no block can be scanned, the
\* call returns exactly the cached last-creation and last-vote records that
\* exist, each once, newest first.
C10_ReturnsCachedRecords ==
  NothingButCache =>
    /\ {hist.value[k] : k \in 1..Len(hist.value)} = CachedRecords
    /\ Len(hist.value) = Cardinality(CachedRecords)
    /\ NewestFirst(hist.value)

\* C11 (as stated): whatever the layers give, no two records of the sequence
\* getContractTransactions returns have the same hash, records of the events of
\* different rounds and placeholders included.
C11_NoTwoRecordsShareAHash ==
  HistDone =>
    \A j, k \in 1..Len(hist.value) : j # k => hist.value[j].hash # hist.value[k].hash

ResultShape(result) == [fields |-> DOMAIN result, success |-> result.success]

\* the steps of createElection that come after the confirmation
PostConfirmationSteps == {"block", "blockNull", "setItem", "currentElectionId"}

\* C13 (as stated): when the transaction of createElection or of castVote is
\* confirmed and a later step fails (the block read, the read of the new round
\* id, the cache write), the result says success and has not the shape of the
\* result of a call whose every step succeeded.
C13_IncompleteDistinguishable ==
  /\ (made.op = "createElection" /\ made.confirmed /\ made.step \in PostConfirmationSteps)
       => /\ made.result.success
          /\ ResultShape(made.result)
               # ResultShape(CreateElectionSuccess(ledger[Len(ledger)], currentElectionId))
  /\ (vote.pc = "done" /\ vote.receipt # <<>> /\ ~vote.wrote)
       => /\ vote.result.success
          /\ ResultShape(vote.result) # ResultShape(CastVoteSuccess(vote.receipt[1]))

\* the half of C13 about createElection
C13_CreateElectionPart ==
  (made.op = "createElection" /\ made.confirmed /\ made.step \in PostConfirmationSteps)
    => /\ made.result.success
       /\ ResultShape(made.result)
            # ResultShape(CreateElectionSuccess(ledger[Len(ledger)], currentElectionId))

\* the text lastVoteCastTx must hold for a receipt: hash, time of the confirming
\* block, sender, receiver and status of that transaction
VoteRecordOf(receipt) ==
  [hash |-> receipt.hash,
   timestamp |-> [type |-> "string", ms |-> receipt.timestamp * MsPerSec],
   from |-> receipt.from, to |-> receipt.to, method |-> "castVote", value |-> "0",
   blockNumber |-> receipt.blockNumber,
   status |-> IF receipt.status = 1 THEN "Confirmed" ELSE "Failed"]

\* C14: after a castVote call whose transaction was confirmed and whose block
\* was read, the key lastVoteCastTx holds one record and it is the record of
\* this transaction; whatever the key held before is gone.
C14_LastVoteIsThisVote ==
  (vote.pc = "done" /\ vote.wrote) => cache[LastVoteKey] = <<VoteRecordOf(vote.receipt[1])>>

\* a second vote of this client has been stored over the record of its first
C14_Witness ==
  /\ vote.pc = "done"
  /\ vote.wrote
  /\ vote.replaced
  /\ vote.receipt[1].from = WalletAccount
  /\ \E k \in 1..Len(ledger) :
        /\ ledger[k].method = "castVote"
        /\ ledger[k].from = WalletAccount
        /\ ledger[k].hash # vote.receipt[1].hash

(***************************************************************************)
(* More claims about Round Discovery.                                      *)
(***************************************************************************)
\* C15: when the read of the current round succeeds and that round exists with
\* a window that contains now, getActiveElectionId returns currentElectionId at
\* once: the current round is the only round the call has read.
C15_CurrentActiveReturnedAtOnce ==
  [][(disc.pc = "fast" /\ disc' # disc /\ disc'.via # "error"
        /\ RoundActive(disc.cur, NowSec(nowMs)))
       => (disc'.pc = "done" /\ disc'.ret = disc.cur /\ disc'.via = "fast"
             /\ disc'.reads = 1)]_vars

\* the call has returned the current round, the second, after reading that round
\* alone, while the first round is active too
C15_Witness ==
  /\ DiscCalm
  /\ disc.via = "fast"
  /\ disc.cur = 2
  /\ disc.ret = 2
  /\ disc.reads = 1
  /\ RoundActive(1, NowSec(nowMs))

\* the id the step of the call that is under way reads
DiscReading == IF disc.pc = "fast" THEN disc.cur ELSE disc.id

\* C16: a read that finds exists = false, in the test of the current round or
\* in the scan, raises no error and does not end the call with that id, also
\* when the stored window contains now: the call goes on to the next id, or
\* returns 0 after the last; and no call returns an id whose round does not exist.
C16_SkipsRoundsThatDoNotExist ==
  [][/\ (disc.pc \in {"fast", "scan"} /\ disc' # disc /\ DiscReading \notin disc'.failed
           /\ ~ElectionAt(DiscReading).exists)
        => /\ disc'.via # "error"
           /\ disc'.failed = disc.failed
           /\ \/ disc'.pc = "scan" /\ disc'.id \in {FirstScanId, disc.id + 1}
              \/ disc'.pc = "done" /\ disc'.via = "none" /\ disc'.ret = 0
     /\ (disc'.pc = "done" /\ disc'.ret # 0) => ElectionAt(disc'.ret).exists]_vars

\* a call has returned 0 without a failed read while an id that does not exist
\* has a window that contains now
C16_Witness ==
  /\ DiscCalm
  /\ disc.via = "none"
  /\ disc.failed = {}
  /\ \E id \in 1..disc.cur :
        ~ElectionAt(id).exists /\ InWindow(ElectionAt(id), NowSec(nowMs))

\* C17: a call that returns an id other than 0 returns the id it has just read,
\* and that round exists and has a window that contains the second of the read;
\* so a call returns 0 when no id it reads has such a round.
C17_NonZeroReturnWasActiveWhenRead ==
  [][(disc'.pc = "done" /\ disc' # disc /\ disc'.ret # 0)
       => /\ disc.pc \in {"fast", "scan"}
          /\ disc'.ret = DiscReading
          /\ DiscReading \in 1..ScanLimit(disc.cur)
          /\ RoundActive(DiscReading, NowSec(nowMs))]_vars

\* the scan has returned an id that is not the current one
C17_Witness ==
  /\ disc.pc = "done"
  /\ disc.via = "scan"
  /\ disc.ret # 0
  /\ disc.ret # disc.cur

(***************************************************************************)
(* More claims about the Candidate/Tally Reader.                           *)
(***************************************************************************)
\* C18: getAllCandidates never throws, whatever the chain read and the cache
\* do, and when the chain read fails and the cache has no list of the round it
\* returns the empty list.
C18_EmptyListNeverThrows ==
  ret.op = "getAllCandidates" =>
    /\ ~ret.threw
    /\ (ret.failed /\ cache[CandidatesKey(ret.id)] = NoEntry) => ret.value = <<>>

\* the chain read of a round that has candidates failed and the cache had no list
C18_Witness ==
  /\ ret.op = "getAllCandidates"
  /\ ret.failed
  /\ cache[CandidatesKey(ret.id)] = NoEntry
  /\ ret.id \in 1..currentElectionId
  /\ chainCandidates[ret.id] # <<>>
  /\ ret.value = <<>>
  /\ ~ret.threw

\* the text JSON.stringify writes for an info object: its Dates as strings
WrittenInfo(info) ==
  [name |-> info.name,
   startTime |-> [type |-> "string", ms |-> info.startTime.ms],
   endTime |-> [type |-> "string", ms |-> info.endTime.ms],
   active |-> info.active,
   candidateCount |-> info.candidateCount]

\* the info of round id as the chain, the clock and the cached candidate list give it
ExpectedInfo(id) ==
  [name |-> ElectionAt(id).name,
   startTime |-> [type |-> "Date", ms |-> ElectionAt(id).startTime * MsPerSec],
   endTime |-> [type |-> "Date", ms |-> ElectionAt(id).endTime * MsPerSec],
   active |-> /\ ElectionAt(id).exists
              /\ ElectionAt(id).startTime * MsPerSec <= nowMs
              /\ nowMs <= ElectionAt(id).endTime * MsPerSec,
   candidateCount |-> IF cache[CandidatesKey(id)] = NoEntry THEN 0
                      ELSE Len(cache[CandidatesKey(id)][1])]

\* C19: after a getElectionInfo call whose chain read succeeded, the key
\* election_<id>_info holds the text of the info the call returned, and that
\* info is the round's name, start, end, active flag and candidate count.
C19_InfoWrittenIsInfoReturned ==
  (ret.op = "getElectionInfo" /\ ~ret.failed /\ ~ret.threw) =>
    /\ ret.value = <<ExpectedInfo(ret.id)>>
    /\ cache[InfoKey(ret.id)] = <<WrittenInfo(ret.value[1])>>

\* the info of an active round with cached candidates has been read and written
C19_Witness ==
  /\ ret.op = "getElectionInfo"
  /\ ~ret.failed
  /\ ~ret.threw
  /\ ret.value # <<>>
  /\ ret.value[1].active
  /\ ret.value[1].candidateCount > 0
  /\ cache[InfoKey(ret.id)] # NoEntry

\* C20: a getElectionInfo call whose chain read fails does not throw, leaves
\* the cache as it was, and returns what the key election_<id>_info holds, as
\* parsed, or null when the key holds nothing.
C20_FailureReturnsCachedInfoOrNull ==
  [][(ret'.op = "getElectionInfo" /\ ret'.failed)
       => /\ ~ret'.threw
          /\ cache' = cache
          /\ IF cache[InfoKey(ret'.id)] = NoEntry
             THEN ret'.value = <<>>
             ELSE ret'.value = <<cache[InfoKey(ret'.id)][1]>>]_vars

\* a call whose chain read failed has returned the info an earlier call had
\* written, which says the round is active although its window is over
C20_Witness ==
  /\ ret.op = "getElectionInfo"
  /\ ret.failed
  /\ ~ret.threw
  /\ ret.value # <<>>
  /\ ret.value = <<cache[InfoKey(ret.id)][1]>>
  /\ ret.value[1].active
  /\ ~RoundActive(ret.id, NowSec(nowMs))

(***************************************************************************)
(* More claims about the Vote Submitter.                                   *)
(***************************************************************************)
\* C21: one castVote call sends at most one transaction, and a step that is
\* rejected (by the user, by the contract, by the network) ends the call with a
\* failure that carries the error's message: the call does not send again.
C21_AtMostOneTransactionPerCall ==
  /\ vote.sent <= 1
  /\ (vote.error.code # "none")
       => /\ vote.pc = "done"
          /\ ~vote.result.success
          /\ vote.result.error = vote.error.message

\* a call has ended in a failure after its one transaction was sent
C21_Witness ==
  /\ vote.pc = "done"
  /\ vote.sent = 1
  /\ vote.error.code \in {"CALL_EXCEPTION", "NETWORK_ERROR"}
  /\ ~vote.result.success

(***************************************************************************)
(* More claims about the History Reconstructor.                            *)
(***************************************************************************)
\* the rounds the finished call has read and found to exist
RoundsRead ==
  {id \in DOMAIN hist.rpc.rounds :
     hist.rpc.rounds[id].electionOk /\ ElectionAt(id).exists}

\* the rounds of which the creation-event query failed in the finished call
QueryFailedRounds == {id \in RoundsRead : hist.rpc.rounds[id].creation = "fails"}

\* the rounds of which the query gave the event and a read of the event's
\* transaction, receipt or block failed
EventReadFailedRounds ==
  {id \in RoundsRead :
     hist.rpc.rounds[id].creation = "readFails" /\ Len(CreationEvents(id)) > 0}

\* tx is a placeholder with the fields a placeholder of round id must have
IsPlaceholderOf(tx, id) ==
  /\ tx.hash.kind = "synthesized"
  /\ tx.method = "createElection"
  /\ tx.status = "Confirmed"
  /\ tx.blockNumber = 0
  /\ tx.timestamp = [type |-> "Date", ms |-> ElectionAt(id).startTime * MsPerSec - MsPerDay]

\* the call has merged one placeholder for each round of `rounds` and no other
PlaceholdersAreOf(rounds) ==
  /\ hist.layers.synthesized = Cardinality(rounds)
  /\ \A id \in rounds : \E k \in 1..Len(hist.merged) : IsPlaceholderOf(hist.merged[k], id)
  /\ \A k \in 1..Len(hist.merged) :
        hist.merged[k].hash.kind = "synthesized"
          => \E id \in rounds : IsPlaceholderOf(hist.merged[k], id)

\* C22 (as stated): the call appends one placeholder (method createElection,
\* status Confirmed, block number 0, dated one day before the round's start) for
\* each existing round whose creation-event query fails, and none for a round
\* whose creation-event query succeeds.
C22_PlaceholderIffQueryFails ==
  (HistDone /\ hist.currentIdRead) => PlaceholdersAreOf(QueryFailedRounds)

\* C22 (amended): the call appends one such placeholder for each existing round
\* whose creation-event query fails or whose query gives the event while a read
\* of the event's transaction, receipt or block fails, and none for any other
\* round.
C22_PlaceholderIffQueryOrReadFails ==
  (HistDone /\ hist.currentIdRead)
    => PlaceholdersAreOf(QueryFailedRounds \cup EventReadFailedRounds)

\* the query of one round failed and its placeholder was merged, the event of
\* another round was found and read and it has no placeholder
C22_Witness ==
  /\ HistDone
  /\ QueryFailedRounds # {}
  /\ \E id \in RoundsRead : hist.rpc.rounds[id].creation = "found"
  /\ hist.layers.synthesized = Cardinality(QueryFailedRounds)
  /\ hist.layers.events > 0

\* the number of the latest block in the finished call
LatestRead == Len(ledger) * ScanStride + hist.rpc.scan.gap

\* the most block reads one scan can make
MaxBlockReads == searchRange \div ScanStride + 1

\* C23: the scan reads the latest block and then every hundredth block below
\* it, in descending order, never a block below max(0, latest - 10000) and
\* never a block once there are 20 records or more; it makes 101 block reads at
\* most.
C23_ScanIsBounded ==
  (HistDone /\ hist.currentIdRead) =>
    /\ \A k \in 1..Len(hist.visited) :
          /\ hist.visited[k].block = LatestRead - (k - 1) * ScanStride
          /\ hist.visited[k].block >= 0
          /\ hist.visited[k].block >= LatestRead - searchRange
          /\ hist.visited[k].count < MaxTransactions
    /\ Len(hist.visited) <= MaxBlockReads
    /\ ~hist.rpc.scan.latestOk => hist.visited = <<>>

\* the scan has stopped at the cap: it read blocks, the records reached 20, and
\* blocks of the range were left unread
C23_Witness ==
  /\ HistDone
  /\ Len(hist.visited) > 0
  /\ Len(hist.merged) >= MaxTransactions
  /\ hist.layers.scanned > 0
  /\ hist.visited[Len(hist.visited)].block - ScanStride >= 0
  /\ hist.visited[Len(hist.visited)].block - ScanStride >= LatestRead - searchRange

\* a scan has read every block of its range
C23_WholeRange ==
  HistDone /\ Len(hist.visited) = MaxBlockReads

(***************************************************************************)
(* Claims about the vote figures over several calls.                       *)
(***************************************************************************)
\* every candidate of the earlier list is in the later list with as many votes
\* or more
VotesNotLess(earlier, later) ==
  \A i \in 1..Len(earlier) : i <= Len(later) /\ later[i].votes >= earlier[i].votes

\* C24 (as stated): of two calls for the same round, the later reports figures
\* that are not less than those the earlier reported: getAllCandidates as many
\* votes or more for each candidate, getTotalVotes a total as large or larger,
\* whichever chain reads fail.
C24_FiguresNeverDecrease ==
  [][/\ (ret.op = "getAllCandidates" /\ ret'.op = "getAllCandidates" /\ ret'.id = ret.id)
          => VotesNotLess(ret.value, ret'.value)
     /\ (ret.op = "getTotalVotes" /\ ret'.op = "getTotalVotes" /\ ret'.id = ret.id)
          => ret'.value >= ret.value]_vars

\* the half of C24 about the lists of getAllCandidates
C24_ListsNeverDecrease ==
  [][(ret.op = "getAllCandidates" /\ ret'.op = "getAllCandidates" /\ ret'.id = ret.id)
       => VotesNotLess(ret.value, ret'.value)]_vars

\* the votes of one voter identity hash the chain has counted in a round
CountedFor(l, id, voter) ==
  Cardinality({k \in 1..Len(l) :
                 l[k].method = "castVote" /\ l[k].round = id /\ l[k].voter = voter})

\* C25: whatever castVote calls are made with the same round and voter identity
\* hash, one after another or while another client votes with that hash, also
\* after a call that lost the node once its transaction was accepted, the chain
\* counts at most one vote for the pair, and a call that ends when the vote of
\* the pair was counted already, and not by the call's own confirmed
\* transaction, ends with a failure result.
C25_RetryIsSafe ==
  [][/\ \A id \in RoundIds, voter \in VoterHashes : CountedFor(ledger', id, voter) <= 1
     /\ (vote.pc \in {"authorizing", "sending", "waiting"} /\ vote'.pc = "done"
           /\ CountedFor(ledger, vote.electionId, vote.voter) = 1)
          => (~vote'.result.success /\ "error" \in DOMAIN vote'.result)]_vars

\* a retry has failed at the send: the pair's vote was counted for an earlier
\* call of this client that never stored its record
C25_Witness ==
  /\ vote.pc = "done"
  /\ ~vote.result.success
  /\ vote.sent = 0
  /\ vote.error.code = "CALL_EXCEPTION"
  /\ cache[LastVoteKey] = NoEntry
  /\ \E k \in 1..Len(ledger) :
        /\ ledger[k].method = "castVote"
        /\ ledger[k].round = vote.electionId
        /\ ledger[k].voter = vote.voter
        /\ ledger[k].from = WalletAccount

(***************************************************************************)
(* Claims about the cost of Round Discovery.                               *)
(***************************************************************************)
\* C26 (as stated): the rounds one getActiveElectionId call reads are never
\* more than min(currentElectionId, 10), and one more for the read of the
\* current round.
C26_ReadsBoundedByMin ==
  disc.reads <= Min({disc.cur, maxElectionsToCheck}) + 1

\* what the code bounds the reads by: max(currentElectionId, 10) and one more
C26_ReadsBoundedByMax ==
  disc.reads <= Max(disc.cur, maxElectionsToCheck) + 1

(***************************************************************************)
(* Round Discovery under fair scheduling, with the clock at rest: every    *)
(* awaited read of a call that has started settles, so the step that       *)
(* follows it is taken.                                                    *)
(***************************************************************************)
NextDiscoveryFair ==
  \/ \E ok \in BOOLEAN : DiscStart(ok)
  \/ \E ok \in BOOLEAN : DiscFast(ok)
  \/ \E ok \in BOOLEAN : DiscProbe(ok)
  \/ \E w \in Windows : CreateElectionWithPrivateKey(<<"R">>, w[1], w[2], <<>>)

SpecDiscoveryFair ==
  /\ Init
  /\ [][NextDiscoveryFair]_vars
  /\ WF_vars(\E ok \in BOOLEAN : DiscFast(ok))
  /\ WF_vars(\E ok \in BOOLEAN : DiscProbe(ok))

\* the scan of one call goes on from one step to the next
ScanGoesOn == disc.pc = "scan" /\ disc'.pc = "scan" /\ disc'.reads = disc.reads + 1

\* the scan of a call starts in this step
ScanBegins == disc.pc \in {"idle", "done", "fast"} /\ disc'.pc = "scan"

\* C27: when the fast path does not return, getActiveElectionId probes the ids
\* 1, 2, ... in ascending order without a gap or a repeat, never probes an id
\* greater than max(currentElectionId, 10), and every call that has started
\* returns.
C27_ScanAscendsBoundedAndReturns ==
  /\ [][/\ ScanBegins => disc'.id = 1
        /\ ScanGoesOn => disc'.id = disc.id + 1]_vars
  /\ [](disc.pc = "scan" =>
          (disc.id >= 1 /\ disc.id <= Max(disc.cur, maxElectionsToCheck)))
  /\ (disc.pc \in {"fast", "scan"}) ~> (disc.pc = "done")

\* a call that probed every id up to the limit and returned 0
C27_Witness ==
  /\ disc.pc = "done" /\ disc.via = "none" /\ disc.ret = 0
  /\ disc.id = Max(disc.cur, maxElectionsToCheck)
  /\ disc.reads >= maxElectionsToCheck

(* Claims about the candidate count of getElectionInfo. *)
\* the length of the list cached under election_<id>_candidates, 0 without one
CachedListLength(id) ==
  IF cache[CandidatesKey(id)] = NoEntry THEN 0
  ELSE Len(cache[CandidatesKey(id)][1])

\* C28: the candidateCount a successful getElectionInfo(id) returns is the
\* length of the candidate list cached for the round at the time of the call,
\* and 0 when none is cached, whatever the round's candidates on the chain.
C28_CandidateCountIsCachedLength ==
  (ret.op = "getElectionInfo" /\ ~ret.failed /\ ~ret.threw) =>
    ret.value[1].candidateCount = CachedListLength(ret.id)

\* a successful call for a round that has candidates on the chain and no
\* cached list
C28_Witness ==
  /\ ret.op = "getElectionInfo"
  /\ ~ret.failed
  /\ ~ret.threw
  /\ ret.value # <<>>
  /\ Len(chainCandidates[ret.id]) > 0
  /\ cache[CandidatesKey(ret.id)] = NoEntry
  /\ ret.value[1].candidateCount = 0

(* Claims about the independence of the layers of getContractTransactions. *)
\* the records the event layer of the call pushed, in the order it pushed them
EventPart == SubSeq(hist.merged, 1, hist.layers.events + hist.layers.synthesized)

\* the rounds the call read: they exist and the read of elections(id) succeeded
ReadableRounds ==
  {id \in 1..currentElectionId : hist.rpc.rounds[id].electionOk /\ ElectionAt(id).exists}

\* the VoteCast events of round id that the node let the call read
VotesReadOf(id) == Prefix(VoteEvents(id), hist.rpc.rounds[id].voteReads)

\* the votes of round id that were read are among the records of the event layer
VotesOfRoundPushed(id) ==
  \A k \in 1..Len(VotesReadOf(id)) :
    \E j \in 1..Len(EventPart) :
      /\ EventPart[j].hash = VotesReadOf(id)[k].hash
      /\ EventPart[j].method = "castVote"

\* the scan read the latest block, with the records of the event layer in hand
ScanStarted ==
  /\ hist.visited # <<>>
  /\ hist.visited[1].block = LatestBlock(hist.rpc.scan)
  /\ hist.visited[1].count = Len(EventPart)

\* the record cached under key is in the merged list
CachedRecordMerged(key) ==
  cache[key] # NoEntry => HasHash(hist.merged, TxFromJSON(cache[key][1]).hash)

\* C29: in getContractTransactions the votes of every round that was read are
\* queried and pushed, whether or not the round's creation query failed and
\* whether or not the reading of another round failed; the block scan reads its
\* first block whenever the latest block number is read and fewer than 20
\* records are in hand, and the cached records are merged, whatever the event
\* layer pushed or failed to read.
C29_LayersIndependent ==
  (hist.op = "getContractTransactions" /\ hist.currentIdRead) =>
    /\ \A id \in ReadableRounds : VotesOfRoundPushed(id)
    /\ (hist.rpc.scan.latestOk /\ Len(EventPart) < MaxTransactions) => ScanStarted
    /\ CachedRecordMerged(LastCreationKey)
    /\ CachedRecordMerged(LastVoteKey)

\* a call in which the read of round 1 failed, the creation query of round 2
\* failed and its votes were read, the scan ran and a cached record was merged
C29_Witness ==
  /\ hist.op = "getContractTransactions"
  /\ hist.currentIdRead
  /\ currentElectionId = 2
  /\ ~hist.rpc.rounds[1].electionOk
  /\ 2 \in ReadableRounds
  /\ hist.rpc.rounds[2].creation = "fails"
  /\ hist.layers.synthesized = 1
  /\ Len(VotesReadOf(2)) > 0
  /\ VotesOfRoundPushed(2)
  /\ hist.rpc.scan.latestOk
  /\ ScanStarted
  /\ cache[LastCreationKey] # NoEntry
  /\ HasHash(hist.merged, TxFromJSON(cache[LastCreationKey][1]).hash)

(***************************************************************************)
(* The vote page: handleCastVote, one step per awaited call. The values    *)
(* isConnected and account of an invocation are those of the render that   *)
(* created the handler: a state update of the hook during the invocation   *)
(* reaches the next render, not this closure.                              *)
(***************************************************************************)
\* lines 526-534: the SHA-256 digest of the identity number, as the text the
\* contract is given
HashNIN(nin) == "nin-" \o nin

\* the identity numbers a voter can enter
NINs == {"1", "2"}

\* lines 443-463: the steps of the page are rendered once the query has data
\* and until the vote is confirmed
StepsShown == page.electionData # 0 /\ ~page.hasVoted

\* a faulty variant: the button is not disabled while isSubmitting
CastVoteButtonNeverDisabled ==
  /\ StepsShown
  /\ page.currentStep = CANDIDATE_SELECTION
  /\ page.selectedCandidate # NoCandidate

\* lines 481-508: the button is rendered in the step CANDIDATE_SELECTION once a
\* candidate is selected, and is disabled while isSubmitting
CastVoteButtonEnabled ==
  /\ StepsShown
  /\ page.currentStep = CANDIDATE_SELECTION
  /\ page.selectedCandidate # NoCandidate
  /\ ~page.isSubmitting

\* setCurrentStep
SetCurrentStep(p, step) == [p EXCEPT !.currentStep = step, !.steps = Append(@, step)]

\* lines 369-383: the query's data has the id that getActiveElectionId returned
\* when it is not 0 and getElectionInfo finds the round active, and is null
\* otherwise or when a read failed
QueryData(ok) ==
  LET found == {id \in 1..currentElectionId : IsActive(ElectionAt(id), NowSec(nowMs))}
      activeElectionId ==
        IF found = {} THEN 0
        ELSE IF currentElectionId \in found THEN currentElectionId
             ELSE CHOOSE id \in found : \A other \in found : id <= other
  IN IF /\ ok
        /\ activeElectionId # 0
        /\ ElectionInfoFromChain(cache, activeElectionId, ElectionAt(activeElectionId),
                                 nowMs).active
     THEN activeElectionId
     ELSE 0

\* the query runs, when the page is mounted and then every minute
ElectionQuery(ok) ==
  /\ page' = [page EXCEPT !.electionData = QueryData(ok)]
  /\ UNCHANGED panel
  /\ ret' = NoCall
  /\ made' = NoMade
  /\ hist' = NoHist
  /\ UNCHANGED <<nowMs, chainVars, cache, disc, vote>>

\* a faulty variant: the identity form leads to the candidates at once
NinLoginSkipsLiveness(nin) ==
  /\ StepsShown
  /\ page.currentStep = NIN_ENTRY
  /\ page' = SetCurrentStep([page EXCEPT !.voterNIN = nin], CANDIDATE_SELECTION)
  /\ UNCHANGED panel
  /\ ret' = NoCall
  /\ made' = NoMade
  /\ hist' = NoHist
  /\ UNCHANGED <<nowMs, chainVars, cache, disc, vote>>

\* lines 466-474: onComplete of the NinLoginForm
NinLoginComplete(nin) ==
  /\ StepsShown
  /\ page.currentStep = NIN_ENTRY
  /\ page' = SetCurrentStep([page EXCEPT !.voterNIN = nin], LIVENESS_CHECK)
  /\ UNCHANGED panel
  /\ ret' = NoCall
  /\ made' = NoMade
  /\ hist' = NoHist
  /\ UNCHANGED <<nowMs, chainVars, cache, disc, vote>>

\* lines 476-479: onComplete of the LivenessCheck
LivenessComplete ==
  /\ StepsShown
  /\ page.currentStep = LIVENESS_CHECK
  /\ page' = SetCurrentStep(page, CANDIDATE_SELECTION)
  /\ UNCHANGED panel
  /\ ret' = NoCall
  /\ made' = NoMade
  /\ hist' = NoHist
  /\ UNCHANGED <<nowMs, chainVars, cache, disc, vote>>

\* lines 388-390 and 491-495: a candidate of the grid is clicked
HandleSelectCandidate(candidate) ==
  /\ StepsShown
  /\ page.currentStep = CANDIDATE_SELECTION
  /\ page' = [page EXCEPT !.selectedCandidate = candidate]
  /\ UNCHANGED panel
  /\ ret' = NoCall
  /\ made' = NoMade
  /\ hist' = NoHist
  /\ UNCHANGED <<nowMs, chainVars, cache, disc, vote>>

\* lines 392-399: the click, up to the test of isConnected
HandleCastVote(selectedCandidate, electionId) ==
  /\ CastVoteButtonEnabled
  /\ LET p == [page EXCEPT !.isConnected = page.wallet.isConnected,
                           !.account = page.wallet.account,
                           !.candidate = selectedCandidate,
                           !.electionId = electionId,
                           !.connect = "none", !.called = FALSE, !.toast = "none",
                           !.entered = FALSE]
     IN page' =
          IF selectedCandidate = NoCandidate \/ electionId = 0
          THEN [p EXCEPT !.pc = "done"]
          ELSE [p EXCEPT !.pc = IF p.isConnected THEN "checking" ELSE "connecting",
                         !.isSubmitting = TRUE, !.entered = TRUE,
                         !.running = @ + 1]
  /\ UNCHANGED panel
  /\ ret' = NoCall
  /\ made' = NoMade
  /\ hist' = NoHist
  /\ UNCHANGED <<nowMs, chainVars, cache, disc, vote>>

\* what connect() of the useMetaMask hook can do: connect the wallet and
\* resolve, reject, or resolve without a connection
ConnectOutcomes == {"connected", "rejected", "unconnected"}

\* lines 436-438: the invocation ends in the finally
HandleCastVoteEnds(p) ==
  [p EXCEPT !.pc = "done", !.isSubmitting = FALSE, !.running = @ - 1]

\* line 400: await connect(); a rejection reaches the catch of lines 429-435
\* and the finally of line 437
HandleCastVoteConnect(outcome) ==
  /\ page.pc = "connecting"
  /\ page' =
       IF outcome = "connected"
       THEN [page EXCEPT !.pc = "checking", !.connect = outcome,
                         !.wallet = [isConnected |-> TRUE, account |-> WalletAccount]]
       ELSE IF outcome = "unconnected"
            THEN [page EXCEPT !.pc = "checking", !.connect = outcome]
            ELSE HandleCastVoteEnds([page EXCEPT !.connect = outcome, !.toast = "error"])
  /\ UNCHANGED panel
  /\ ret' = NoCall
  /\ made' = NoMade
  /\ hist' = NoHist
  /\ UNCHANGED <<nowMs, chainVars, cache, disc, vote>>

\* lines 404-409 and 436-438: the test of the invocation's own isConnected and
\* account; when it fails the invocation ends in the finally
HandleCastVoteProceed ==
  /\ page.pc = "checking"
  /\ page' =
       IF page.isConnected /\ page.account # NoAccount
       THEN [page EXCEPT !.pc = "casting"]
       ELSE HandleCastVoteEnds(page)
  /\ UNCHANGED panel
  /\ ret' = NoCall
  /\ made' = NoMade
  /\ hist' = NoHist
  /\ UNCHANGED <<nowMs, chainVars, cache, disc, vote>>

\* line 415: result.success && result.transactionHash
VoteSubmitted(result) == result.success /\ result.transactionHash # EmptyHash

\* a faulty variant: a failure result confirms the vote as well
HandleCastVoteResultAlwaysConfirms ==
  /\ page.pc = "awaiting"
  /\ vote.pc = "done"
  /\ page' =
       HandleCastVoteEnds(
         SetCurrentStep([page EXCEPT !.toast = "submitted", !.hasVoted = TRUE,
                                     !.calls = @ - 1],
                        TRANSACTION_CONFIRMATION))
  /\ UNCHANGED panel
  /\ ret' = NoCall
  /\ made' = NoMade
  /\ hist' = NoHist
  /\ UNCHANGED <<nowMs, chainVars, cache, disc, vote>>

\* lines 415-438: the result of castVote
HandleCastVoteResult ==
  /\ page.pc = "awaiting"
  /\ vote.pc = "done"
  /\ page' =
       IF VoteSubmitted(vote.result)
       THEN HandleCastVoteEnds(
              SetCurrentStep([page EXCEPT !.transactionHash = vote.result.transactionHash,
                                          !.toast = "submitted", !.hasVoted = TRUE,
                                          !.calls = @ - 1],
                             TRANSACTION_CONFIRMATION))
       ELSE HandleCastVoteEnds([page EXCEPT !.toast = "error", !.calls = @ - 1])
  /\ UNCHANGED panel
  /\ ret' = NoCall
  /\ made' = NoMade
  /\ hist' = NoHist
  /\ UNCHANGED <<nowMs, chainVars, cache, disc, vote>>

NextPage ==
  \/ \E ok \in BOOLEAN : ElectionQuery(ok)
  \/ \E nin \in NINs : NinLoginComplete(nin)
  \/ LivenessComplete
  \/ \E candidate \in 0..1 : HandleSelectCandidate(candidate)
  \/ HandleCastVote(page.selectedCandidate, page.electionData)
  \/ \E outcome \in ConnectOutcomes : HandleCastVoteConnect(outcome)
  \/ HandleCastVoteProceed
  \/ \E hasWallet \in BOOLEAN :
        /\ page.pc = "casting"
        /\ CastVoteStart(page.electionId, page.candidate, HashNIN(page.voterNIN), hasWallet)
  \/ \E ok \in BOOLEAN, error \in AuthorizeErrors : CastVoteAuthorize(ok, error)
  \/ \E ok \in BOOLEAN, error \in SendErrors : CastVoteSend(ok, error)
  \/ CastVoteConfirmed
  \/ \E error \in WaitRevert \cup WaitLost, mined \in BOOLEAN : CastVoteWaitFails(error, mined)
  \/ \E block \in StoreOutcomes : CastVoteStore(block)
  \/ HandleCastVoteResult
  \/ Tick(MsPerSec)
  \/ currentElectionId = 0 /\ CreateElectionWithPrivateKey(<<"R">>, 1, MaxSec, TwoCandidates)

SpecPage == Init /\ [][NextPage]_vars

(* Claims about the vote page. *)
\* the invocation went past line 393, found the wallet not connected, and its
\* connect() connected the wallet
ConnectedDuringInvocation ==
  page.entered /\ ~page.isConnected /\ page.connect = "connected"

\* C30 (as stated): an invocation of handleCastVote that, with a candidate
\* selected and an active round, finds the wallet not connected and then
\* connects it, has called castVote or shown the user an error when it ends.
C30_SubmitsOrReports ==
  (page.pc = "done" /\ ConnectedDuringInvocation) =>
    (page.called \/ page.toast = "error")

\* what the code does: such an invocation never calls castVote and shows nothing
C30_ConnectingInvocationDoesNothing ==
  (page.pc = "done" /\ ConnectedDuringInvocation) =>
    (~page.called /\ page.toast = "none" /\ ~page.isSubmitting)

\* an invocation that finds the wallet connected calls castVote and shows its
\* outcome
C30_ConnectedInvocationSubmits ==
  (page.pc = "done" /\ page.entered /\ page.isConnected) =>
    (page.called /\ page.toast \in {"submitted", "error"})

(* Claims about what castVote writes. *)
\* the step is one of castVote and it ends a call whose transaction was sent and
\* confirmed, with a success result
ConfirmedVoteEnds ==
  /\ vote.pc = "storing"
  /\ vote'.pc = "done"
  /\ vote'.result.success
  /\ vote'.sent = 1
  /\ vote'.receipt # <<>>

\* C31: no step of a castVote call that returns success=false changes a cache
\* key, and lastVoteCastTx changes only in the last step of a castVote call
\* whose transaction was sent and confirmed.
C31_FailedVoteWritesNothing ==
  [][/\ (vote' # vote /\ cache' # cache) => ConfirmedVoteEnds
     /\ (cache'[LastVoteKey] # cache[LastVoteKey]) => ConfirmedVoteEnds]_vars

\* a call that was reverted has returned, with the record of an earlier vote
\* still under lastVoteCastTx
C31_Witness ==
  /\ vote.pc = "done"
  /\ ~vote.result.success
  /\ vote.error.code = "CALL_EXCEPTION"
  /\ cache[LastVoteKey] # NoEntry

(***************************************************************************)
(* createElection with the browser wallet, one step per awaited part: up   *)
(* to the sending of the transaction (lines 87-129), its confirmation      *)
(* (line 132) and what follows it (lines 135-189). While the transaction   *)
(* is pending the clock moves, and the other clients of the contract       *)
(* create rounds at any time: the reads of lines 137 and 153 are awaited   *)
(* after the confirmation.                                                 *)
(***************************************************************************)
\* the call in progress: the window it was asked for, the second it sent its
\* transaction in and the window it submitted
CreateCall(step, name, cands, requested, sentAt, result) ==
  [op |-> "createElection", result |-> result, error |-> NoError,
   confirmed |-> FALSE, step |-> step, name |-> name, cands |-> cands,
   requested |-> requested, sentAt |-> sentAt,
   startTime |-> sentAt + StartDelaySec, endTime |-> sentAt + EndDelaySec]

CreateInProgress == made.step \in {"sent", "pending"}

\* lines 87-129: the wallet is there, the account is authorized, the dates are
\* tested and the transaction is sent with the adjusted window
CreateElectionSend(name, startSec, endSec, cands) ==
  /\ vote.pc \in {"idle", "done"}
  /\ disc.pc \in {"idle", "done"}
  /\ ~CreateInProgress
  /\ LET now == NowSec(nowMs)
         early == DateCheck(startSec, endSec, now)
     IN made' = IF early # <<>>
                THEN CreateCall("dates", name, cands, <<startSec, endSec>>, now, early[1])
                ELSE CreateCall("sent", name, cands, <<startSec, endSec>>, now, NoResult)
  /\ ret' = NoCall
  /\ hist' = NoHist
  /\ UNCHANGED page
  /\ UNCHANGED panel
  /\ UNCHANGED <<nowMs, chainVars, cache, disc, vote>>

\* how long a transaction stays pending when it is not confirmed at once, in
\* seconds: until the submitted window has opened, or until it has closed
PendingSeconds == {StartDelaySec, EndDelaySec + 1}

\* the clock while the transaction is pending; one long wait in a behaviour
CreateElectionWait(d) ==
  /\ made.step = "sent"
  /\ nowMs <= MaxNowMs
  /\ nowMs' = nowMs + d * MsPerSec
  /\ ret' = NoCall
  /\ hist' = NoHist
  /\ UNCHANGED page
  /\ UNCHANGED panel
  /\ UNCHANGED <<chainVars, cache, disc, vote, made>>

\* line 132: tx.wait() gives the receipt of the confirmed transaction
CreateElectionMined ==
  /\ made.step = "sent"
  /\ ChainCreateElection(made.name, made.startTime, made.endTime, made.cands,
                         WalletAccount)
  /\ made' = [made EXCEPT !.step = "pending", !.confirmed = TRUE]
  /\ ret' = NoCall
  /\ hist' = NoHist
  /\ UNCHANGED page
  /\ UNCHANGED panel
  /\ UNCHANGED <<nowMs, cache, disc, vote>>

\* the transaction of another client that creates a round is confirmed
OtherClientCreateElection(name, cands) ==
  /\ ChainCreateElection(name, 1, MaxSec, cands, OtherAccount)
  /\ made' = IF CreateInProgress THEN made ELSE NoMade
  /\ ret' = NoCall
  /\ hist' = NoHist
  /\ UNCHANGED page
  /\ UNCHANGED panel
  /\ UNCHANGED <<nowMs, cache, disc, vote>>

\* the receipt of the last transaction this wallet had confirmed
OwnReceipt ==
  LET own == SelectSeq(ledger, LAMBDA m : m.from = WalletAccount /\ m.method = "createElection")
  IN own[Len(own)]

\* the candidates the pending call was given
OwnCandidates == made.cands

\* the first step after the confirmation that does not succeed, "none" when all do
StoreSteps == {"block", "blockNull", "setItem", "currentElectionId", "none"}

\* lines 135-189: the block is read, the record is written, currentElectionId is
\* read as it is now (line 153) and the candidates are written under it
CreateElectionStored(step) ==
  /\ made.step = "pending"
  /\ step \in StoreSteps
  /\ LET r == CreateElectionStore(cache, OwnReceipt, currentElectionId, OwnCandidates, step)
     IN /\ cache' = r.cache
        /\ made' = [made EXCEPT !.result = r.result, !.step = step]
  /\ ret' = NoCall
  /\ hist' = NoHist
  /\ UNCHANGED page
  /\ UNCHANGED panel
  /\ UNCHANGED <<nowMs, chainVars, disc, vote>>

NextCreate ==
  \/ \E cands \in {OneCandidate, TwoCandidates}, startIn \in 0..1, endIn \in 0..1 :
        CreateElectionSend(<<"R">>, NowSec(nowMs) + startIn, NowSec(nowMs) + endIn, cands)
  \/ \E d \in PendingSeconds : CreateElectionWait(d)
  \/ CreateElectionMined
  \/ OtherClientCreateElection(<<"S">>, OneCandidate)
  \/ \E step \in StoreSteps : CreateElectionStored(step)
  \/ ~CreateInProgress /\ Tick(MsPerSec)

SpecCreate == Init /\ [][NextCreate]_vars

(* Claims about the round createElection caches its candidates under. *)
\* the call wrote everything and returned the full success result
CreateStoredAll == made.op = "createElection" /\ made.confirmed /\ made.step = "none"

\* C32 (as stated): the candidate list createElection caches after the
\* confirmation is under the id of the round its own transaction created, and
\* that is the id it returns, also when another round was created in between.
C32_CandidatesUnderOwnRound ==
  CreateStoredAll =>
    /\ made.result.electionId = OwnReceipt.round
    /\ cache[CandidatesKey(OwnReceipt.round)]
         = <<CandidatesToJSON(CandidateObjects(OwnCandidates))>>

\* what the code does: the list is under the newest round at the time of the
\* read of line 153
C32_CandidatesUnderNewestRound ==
  CreateStoredAll =>
    /\ made.result.electionId = currentElectionId
    /\ cache[CandidatesKey(currentElectionId)]
         = <<CandidatesToJSON(CandidateObjects(OwnCandidates))>>

(***************************************************************************)
(* Round Discovery with a clock that also stops inside a second: Date.now() *)
(* is in milliseconds.                                                     *)
(***************************************************************************)
NextInstants ==
  \/ \E ok \in BOOLEAN : DiscStart(ok)
  \/ \E ok \in BOOLEAN : DiscFast(ok)
  \/ \E ok \in BOOLEAN : DiscProbe(ok)
  \/ Tick(MsPerSec \div 2)
  \/ \E w \in Windows : CreateElectionWithPrivateKey(<<"R">>, w[1], w[2], <<>>)

SpecInstants == Init /\ [][NextInstants]_vars

(* Claims about the agreement of Round Discovery and getElectionInfo. *)
\* the active field getElectionInfo(id) computes from the chain now (lines 358-361)
InfoActiveNow(id) == ElectionInfoFromChain(cache, id, ElectionAt(id), nowMs).active

\* C33 (as stated): at the same instant and against the same chain state, every
\* non-zero id that getActiveElectionId returns has getElectionInfo(id).active
\* true, also within the second of the round's endTime.
C33_DiscoveryAndInfoAgree ==
  (DiscCalm /\ disc.ret # 0) => InfoActiveNow(disc.ret)

\* the two agree at every instant that is not after the first millisecond of the
\* second of the round's endTime
C33_AgreeUpToEndInstant ==
  (DiscCalm /\ disc.ret # 0 /\ nowMs <= ElectionAt(disc.ret).endTime * MsPerSec)
    => InfoActiveNow(disc.ret)

\* within the second of endTime, after its first millisecond, they disagree
C33_DisagreeInsideEndSecond ==
  (DiscCalm /\ disc.ret # 0 /\ nowMs > ElectionAt(disc.ret).endTime * MsPerSec)
    => (NowSec(nowMs) = ElectionAt(disc.ret).endTime /\ ~InfoActiveNow(disc.ret))

(* Claims about the window createElection submits. *)
\* the round the call's transaction created
OwnRound == ElectionAt(OwnReceipt.round)

\* a step in which the call returns at the test of the dates
ReturnsAtDates == made'.step = "dates" /\ made' # made

\* a step in which the call sends its transaction
Sends == made'.step = "sent" /\ made.step # "sent"

\* the call sends nothing and writes nothing when a requested time is not after
\* now, sends only when both are, and the round created has the window
\* [now + 300 s, now + 3600 s] of the second of the sending
C34_DatesAndWindow ==
  /\ [][/\ ReturnsAtDates =>
             /\ (made'.requested[1] <= NowSec(nowMs) \/ made'.requested[2] <= NowSec(nowMs))
             /\ ~made'.result.success
             /\ ledger' = ledger
             /\ cache' = cache
        /\ Sends =>
             /\ made'.requested[1] > NowSec(nowMs)
             /\ made'.requested[2] > NowSec(nowMs)
             /\ cache' = cache]_vars
  /\ [](made.step = "pending" =>
          /\ OwnRound.startTime = made.sentAt + StartDelaySec
          /\ OwnRound.endTime = made.sentAt + EndDelaySec)

\* C34 (as stated): in addition, the round is not active at the moment of its
\* creation.
C34_NotActiveAtCreation ==
  /\ C34_DatesAndWindow
  /\ [](made.step = "pending" => ~IsActive(OwnRound, NowSec(nowMs)))

\* C34 (amended): in addition, the round is not active at the moment of its
\* creation when its transaction is confirmed less than 300 s after it was
\* sent, and is active at that moment when the confirmation comes later.
C34_NotActiveWhenConfirmedInTime ==
  /\ C34_DatesAndWindow
  /\ [](made.step = "pending" =>
          (IsActive(OwnRound, NowSec(nowMs))
             <=> (NowSec(nowMs) >= made.sentAt + StartDelaySec
                    /\ NowSec(nowMs) <= made.sentAt + EndDelaySec)))

\* a round created by a transaction that was asked for another window and was
\* confirmed in the second it was sent in
C34_Witness ==
  /\ made.step = "pending"
  /\ made.requested # <<made.startTime, made.endTime>>
  /\ NowSec(nowMs) = made.sentAt
  /\ OwnRound.exists
  /\ ~IsActive(OwnRound, NowSec(nowMs))

(***************************************************************************)
(* Round Discovery and the History Reconstructor against a node whose read *)
(* of currentElectionId may fail, in a browser that created a round itself *)
(* (the wallet path caches lastElectionCreationTx).                        *)
(***************************************************************************)
\* the answers of the node: the read of currentElectionId fails, or every read
\* succeeds, with or without the block scan
FailingRpcViews(electionCount) ==
  {[currentIdOk |-> FALSE, rounds |-> <<>>, scan |-> NoScan, console |-> "none"]}
    \cup [currentIdOk : {TRUE},
          rounds : [1..electionCount ->
                      {[electionOk |-> TRUE, creation |-> "found", voteReads |-> MaxVotes]}],
          scan : {NoScan,
                  [latestOk |-> TRUE, blocksOk |-> TRUE, gap |-> 0, selectors |-> TRUE]},
          console : {"none"}]

NextReadFails ==
  \/ \E ok \in BOOLEAN : DiscStart(ok)
  \/ \E ok \in BOOLEAN : DiscFast(ok)
  \/ \E ok \in BOOLEAN : DiscProbe(ok)
  \/ \E rpc \in FailingRpcViews(currentElectionId) :
        hist = NoHist /\ disc.pc \in {"idle", "done"} /\ GetContractTransactions(rpc)
  \/ CreateElection(<<"R">>, NowSec(nowMs) + 1, NowSec(nowMs) + 2, OneCandidate,
                    "none", NoError)
  \/ CreateElectionWithPrivateKey(<<"R">>, 1, MaxSec, OneCandidate)
  \/ OtherClientVote(1, 1, "nin-1")

SpecReadFails == Init /\ [][NextReadFails]_vars

(* Claims about a failed read of currentElectionId. *)
\* the getActiveElectionId call whose read of currentElectionId failed
DiscCurrentIdFailed == disc.pc # "idle" /\ ~disc.currentIdRead

\* the getContractTransactions call whose read of currentElectionId failed
HistCurrentIdFailed == hist.op = "getContractTransactions" /\ ~hist.currentIdRead

\* C35: when the read of currentElectionId fails, getActiveElectionId returns 0
\* and has read no round and no cache key, and getContractTransactions returns
\* the empty list and has read no round, no block and no cached record.
C35_CurrentIdFailureEndsTheCall ==
  /\ DiscCurrentIdFailed =>
       /\ disc.pc = "done"
       /\ disc.via = "error"
       /\ disc.ret = 0
       /\ disc.reads = 0
       /\ disc.cacheReads = {}
  /\ HistCurrentIdFailed =>
       /\ hist.value = <<>>
       /\ hist.merged = <<>>
       /\ hist.visited = <<>>
       /\ hist.layers = NoHist.layers

\* both calls failed at the read of currentElectionId, with a round on the
\* chain and a record in the cache
C35_Witness ==
  /\ DiscCurrentIdFailed
  /\ HistCurrentIdFailed
  /\ currentElectionId > 0
  /\ Len(ledger) > 0
  /\ cache[LastCreationKey] # NoEntry

(***************************************************************************)
(* The admin NIN management panel: loadLockStatus and handleToggleLock,    *)
(* one step per awaited call.                                              *)
(***************************************************************************)
\* the handleToggleLock invocations of one behaviour
MaxToggles == 3

\* line 215, the address used when the hook has no account
DefaultAdminAddress == "0x2B3d7c0A2A05f760272165A836D1aDFE8ea38490"

\* how toggleNINSubmissionLock can end: the backend is updated and the result
\* says so, the result has success false, or the promise rejects
ToggleOutcomes == {"success", "failure", "throws"}

otherVars == <<nowMs, chainVars, cache, disc, ret, vote, made, hist, page>>

\* the hook reports an account, or none
PanelAccount(account) ==
  /\ panel.pc = "idle"
  /\ panel' = [panel EXCEPT !.account = account]
  /\ UNCHANGED otherVars

\* another administrator changes the lock in the backend
OtherAdminToggle ==
  /\ panel' = [panel EXCEPT !.locked = ~@]
  /\ UNCHANGED otherVars

\* lines 183-185 and 272-276: the Refresh button, enabled while nothing is loading
LoadLockStatus ==
  /\ panel.pc = "idle"
  /\ ~panel.loadingLockStatus
  /\ panel' = [panel EXCEPT !.pc = "loading", !.loadingLockStatus = TRUE,
                            !.outcome = "none", !.toast = "none"]
  /\ UNCHANGED otherVars

\* lines 186-198: checkNINSubmissionLocked resolves or rejects
LoadLockStatusEnds(ok) ==
  /\ panel.pc = "loading"
  /\ panel' = [panel EXCEPT !.pc = "idle", !.loadingLockStatus = FALSE,
                            !.isSubmissionLocked = IF ok THEN panel.locked ELSE @,
                            !.toast = IF ok THEN "none" ELSE "error"]
  /\ UNCHANGED otherVars

\* lines 210-226 and 306-323: the switch, rendered while loadingLockStatus is
\* false; the invocation up to the await
HandleToggleLock ==
  /\ panel.pc = "idle"
  /\ ~panel.loadingLockStatus
  /\ panel.toggles < MaxToggles
  /\ panel' = [panel EXCEPT !.pc = "toggling", !.loadingLockStatus = TRUE,
                            !.before = panel.isSubmissionLocked,
                            !.newLockStatus = ~panel.isSubmissionLocked,
                            !.isSubmissionLocked = ~panel.isSubmissionLocked,
                            !.adminAddress = IF panel.account # NoAccount
                                             THEN panel.account
                                             ELSE DefaultAdminAddress,
                            !.outcome = "none", !.toast = "none"]
  /\ UNCHANGED otherVars

\* lines 226-247: the update has ended
HandleToggleLockEnds(outcome) ==
  /\ panel.pc = "toggling"
  /\ panel' =
       [panel EXCEPT !.pc = "idle", !.loadingLockStatus = FALSE,
                     !.outcome = outcome, !.toggles = @ + 1,
                     !.locked = IF outcome = "success" THEN panel.newLockStatus ELSE @,
                     !.isSubmissionLocked =
                        IF outcome = "failure" THEN ~panel.newLockStatus ELSE @,
                     !.toast = IF outcome = "success" THEN "success" ELSE "error"]
  /\ UNCHANGED otherVars

NextPanel ==
  \/ \E account \in {NoAccount, WalletAccount} : PanelAccount(account)
  \/ OtherAdminToggle
  \/ LoadLockStatus
  \/ \E ok \in BOOLEAN : LoadLockStatusEnds(ok)
  \/ HandleToggleLock
  \/ \E outcome \in ToggleOutcomes : HandleToggleLockEnds(outcome)

SpecPanel == Init /\ [][NextPanel]_vars

(* Claims about the admin NIN management panel. *)
\* a handleToggleLock invocation has ended and nothing was loaded since
ToggleEnded == panel.pc = "idle" /\ panel.outcome # "none"

\* C39 (as stated): after handleToggleLock, isSubmissionLocked is the negation
\* of its value before the call exactly when the backend update succeeded, it is
\* the value before the call when the update returned a failure result or
\* threw, and loadingLockStatus is false.
C39_ToggleFollowsUpdate ==
  ToggleEnded =>
    /\ panel.isSubmissionLocked = (~panel.before) <=> panel.outcome = "success"
    /\ panel.outcome \in {"failure", "throws"} =>
         panel.isSubmissionLocked = panel.before
    /\ ~panel.loadingLockStatus

\* what the code does: a failure result restores the value, and
\* loadingLockStatus is false in every outcome
C39_FailureResultRestores ==
  ToggleEnded =>
    /\ panel.outcome = "success" => panel.isSubmissionLocked = ~panel.before
    /\ panel.outcome = "failure" => panel.isSubmissionLocked = panel.before
    /\ ~panel.loadingLockStatus

\* a thrown error leaves the value the panel set before the update
C39_ThrownErrorKeepsToggle ==
  (ToggleEnded /\ panel.outcome = "throws") =>
    /\ panel.isSubmissionLocked = ~panel.before
    /\ panel.toast = "error"

(* Claims about the steps of the vote page. *)
\* the step is the one in which handleCastVote calls castVote
CastVoteInvoked == page'.calls > page.calls

\* C36: castVote is invoked only while the step is CANDIDATE_SELECTION, with the
\* candidate and the round id of the invocation, which are a selected candidate
\* and a non-zero id of the query's data; a step from CANDIDATE_SELECTION on has
\* been reached through NIN_ENTRY, LIVENESS_CHECK and CANDIDATE_SELECTION in this
\* order, and the step never decreases.
C36_CastOnlyAtSelection ==
  /\ [][CastVoteInvoked =>
          /\ page.currentStep = CANDIDATE_SELECTION
          /\ page'.currentStep = CANDIDATE_SELECTION
          /\ page.candidate # NoCandidate
          /\ page.electionId # 0
          /\ vote'.candidateIndex = page.candidate
          /\ vote'.electionId = page.electionId
          /\ vote'.voter = HashNIN(page.voterNIN)]_vars
  /\ [][page'.currentStep >= page.currentStep]_vars
  /\ [](page.currentStep >= CANDIDATE_SELECTION =>
          /\ Len(page.steps) >= 3
          /\ SubSeq(page.steps, 1, 3) = <<NIN_ENTRY, LIVENESS_CHECK, CANDIDATE_SELECTION>>)
  /\ [](page.currentStep = page.steps[Len(page.steps)])

\* a castVote call of the page has been sent and is waiting for its confirmation
C36_Witness ==
  /\ page.pc = "awaiting"
  /\ page.calls = 1
  /\ vote.pc = "waiting"
  /\ vote.electionId = 1
  /\ page.currentStep = CANDIDATE_SELECTION
  /\ page.steps = <<NIN_ENTRY, LIVENESS_CHECK, CANDIDATE_SELECTION>>

\* the step is the one in which a castVote call returns to handleCastVote
\* without a success and a transaction hash
FailedVoteReturns == page'.calls < page.calls /\ ~VoteSubmitted(vote.result)

\* C37: whenever hasVoted is true the last castVote call returned success with
\* a non-empty transaction hash, transactionHash is that hash and the step is
\* TRANSACTION_CONFIRMATION; hasVoted never returns to false; and the return
\* of a failed castVote changes none of hasVoted, transactionHash and the step.
C37_HasVotedOnlyOnSuccess ==
  /\ [](page.hasVoted =>
          /\ vote.pc = "done"
          /\ VoteSubmitted(vote.result)
          /\ page.transactionHash = vote.result.transactionHash
          /\ page.transactionHash # EmptyHash
          /\ page.currentStep = TRANSACTION_CONFIRMATION)
  /\ [](~page.hasVoted =>
          (page.transactionHash = EmptyHash /\ page.currentStep # TRANSACTION_CONFIRMATION))
  /\ [][page.hasVoted => page'.hasVoted]_vars
  /\ [][FailedVoteReturns =>
          /\ page'.hasVoted = page.hasVoted
          /\ page'.transactionHash = page.transactionHash
          /\ page'.currentStep = page.currentStep]_vars

\* the vote is confirmed on the page after an earlier call of the page had failed
\* with a revert
C37_Witness ==
  /\ page.hasVoted
  /\ page.transactionHash = VoteHash(1, HashNIN(page.voterNIN))
  /\ vote.revertResults # {}

\* C38: isSubmitting is true exactly while an invocation of handleCastVote that
\* went past line 393 has not ended, whatever its outcome; at most one invocation is
\* in progress and at most one castVote call of the page is in flight.
C38_OneSubmissionAtATime ==
  /\ page.isSubmitting <=> page.running > 0
  /\ page.isSubmitting <=> page.pc \in {"connecting", "checking", "casting", "awaiting"}
  /\ page.running <= 1
  /\ page.calls <= page.running
  /\ page.calls = 1 <=> page.pc = "awaiting"

\* a second invocation is in progress, with its castVote call in flight, after a
\* first one that connected the wallet and ended without submitting and a
\* castVote call that failed
C38_Witness ==
  /\ page.isSubmitting
  /\ page.calls = 1
  /\ vote.pc = "waiting"
  /\ vote.revertResults # {}
  /\ page.wallet.isConnected

====
